---- MODULE Spec2Model ----
(***************************************************************************)
(* A model of the operator core of the workflow controller                 *)
(* (workflow/controller/operator.go): one reconciliation, operate(), of a  *)
(* single workflow against the pods the informer shows, with the retry     *)
(* planner, the pod assessor, the parallelism guard, template level        *)
(* synchronization and persistence.                                        *)
(*                                                                         *)
(* Times are whole seconds; 0 is the zero time (IsZero).  Node names are   *)
(* strings; the node id of a name is the name itself (NodeID is a pure     *)
(* hash of the name, and the pod of a node is named by the node id).       *)
(***************************************************************************)
EXTENDS Integers, Sequences, FiniteSets, TLC

VARIABLES
    wf,        \* the workflow object of the informer store (woc.orig of the next operate)
    pods,      \* the pods of the workflow: node name -> pod
    now,       \* the clock
    held,      \* SyncManager: the node ids of this workflow holding the template lock
    lockBusy,  \* SyncManager: the template lock is held by another workflow
    last,      \* what the last operate() did: its calls, the phases it assigned, ...
    cfg,       \* the workflow spec (fixed while the workflow runs)
    ops,       \* number of operations applied so far
    srv,       \* the workflow object of the API server (reapplyUpdate)
    woc,       \* the operation context of a running reapplyUpdate / podReconciliation
    gpc,       \* podReconciliation: position of the assessment goroutine of each pod
    seenPods   \* podReconciliation: the seenPods map

vars == <<wf, pods, now, held, lockBusy, last, cfg, ops, srv, woc, gpc, seenPods>>

(***************************************************************************)
(* Bounds of the model                                                     *)
(***************************************************************************)
MaxOps == 4          \* reconciliations of one behaviour
MaxTime == 12        \* the clock stops here
RetryLimit == 1      \* retryStrategy.limit of the retried template

(***************************************************************************)
(* Program constants                                                       *)
(***************************************************************************)
RecentlyStartedPodDuration == 10   \* RECENTLY_STARTED_POD_DURATION default, seconds
MaxReapplyAttempts == 5

(***************************************************************************)
(* Node phases and node status (pkg/apis types, used by the operator)      *)
(***************************************************************************)
NodePhases == {"Pending", "Running", "Succeeded", "Failed", "Error", "Skipped", "Omitted"}

Fulfilled(phase) == phase \in {"Succeeded", "Failed", "Error", "Skipped", "Omitted"}

FailedOrError(phase) == phase \in {"Failed", "Error"}

NoOutputs == [set |-> FALSE, exit |-> 0, ann |-> "none"]

\* a node without memoizationStatus
NoMemoization == [set |-> FALSE, hit |-> FALSE, key |-> "", cacheName |-> ""]

\* A node as initializeNode builds it.
NewNode(type, phase, msg, t) ==
    [type |-> type, phase |-> phase, message |-> msg,
     startedAt |-> t, finishedAt |-> IF Fulfilled(phase) THEN t ELSE 0,
     daemoned |-> FALSE, children |-> <<>>, waiting |-> "",
     outputs |-> NoOutputs, host |-> "", memoizationStatus |-> NoMemoization]

\* NodeStatus.GetReason() = WaitingForSyncLock
WaitingForSyncLock(node) == node.waiting # ""

(***************************************************************************)
(* Pods.  ctrs lists the init container statuses, then the container       *)
(* statuses, as inferFailedReason appends them.                            *)
(***************************************************************************)
Ctr(name, state, exit, ready, fin) ==
    [name |-> name, state |-> state, exit |-> exit, ready |-> ready, fin |-> fin]

NewPod(phase, ctrs) ==
    [phase |-> phase, message |-> "", ctrs |-> ctrs, tmplAnn |-> "ok",
     daemon |-> FALSE, outputsAnn |-> "none", host |-> "h1",
     seen |-> TRUE, completed |-> FALSE]

\* getExitCode: the exit code of the terminated main container, -1 for nil
getExitCode(pod) ==
    LET idx == {i \in DOMAIN pod.ctrs :
                   pod.ctrs[i].name = "main" /\ pod.ctrs[i].state = "terminated"}
    IN IF idx = {} THEN -1
       ELSE pod.ctrs[CHOOSE i \in idx : \A j \in idx : i <= j].exit

\* getLatestFinishedAt
getLatestFinishedAt(pod) ==
    LET fins == {pod.ctrs[i].fin : i \in {j \in DOMAIN pod.ctrs : pod.ctrs[j].state = "terminated"}}
    IN IF fins = {} THEN 0 ELSE CHOOSE t \in fins : \A u \in fins : u <= t

\* getPendingReason: the reason of the first waiting container
getPendingReason(pod) ==
    LET idx == {i \in DOMAIN pod.ctrs : pod.ctrs[i].state = "waiting"}
    IN IF idx = {} THEN "" ELSE "ContainerCreating"

\* an order that looks at the wait container before the main container
orderWaitFirst(name) ==
    CASE name = "init" -> 0
      [] name = "wait" -> 1
      [] name = "main" -> 2
      [] OTHER -> 3

\* the order inferFailedReason sorts the containers by
order(name) ==
    CASE name = "init" -> 0
      [] name = "main" -> 1
      [] name = "wait" -> 2
      [] OTHER -> 3

\* sort.Slice by order(); the sort of fewer than 12 elements is an insertion sort, which keeps equals in place
sortedCtrs(pod) ==
    SelectSeq(pod.ctrs, LAMBDA c : order(c.name) = 0) \o
    SelectSeq(pod.ctrs, LAMBDA c : order(c.name) = 1) \o
    SelectSeq(pod.ctrs, LAMBDA c : order(c.name) = 2) \o
    SelectSeq(pod.ctrs, LAMBDA c : order(c.name) = 3)

exitMsg(c) == "Error (exit code " \o ToString(c.exit) \o ")"

RECURSIVE inferLoop(_, _)
inferLoop(ctrs, i) ==
    IF i > Len(ctrs) THEN [phase |-> "Succeeded", message |-> ""]
    ELSE LET c == ctrs[i] IN
      IF c.state = "waiting"
        THEN [phase |-> "Error", message |-> "Pod failed before " \o c.name \o " container starts"]
      ELSE IF c.state # "terminated" THEN inferLoop(ctrs, i + 1)
      ELSE IF c.exit = 0 THEN inferLoop(ctrs, i + 1)
      ELSE IF c.name = "init" THEN [phase |-> "Error", message |-> exitMsg(c)]
      ELSE IF c.name = "main" THEN [phase |-> "Failed", message |-> exitMsg(c)]
      ELSE IF c.name = "wait" THEN [phase |-> "Error", message |-> exitMsg(c)]
      ELSE IF c.exit = 137 \/ c.exit = 143 THEN inferLoop(ctrs, i + 1)
      ELSE [phase |-> "Failed", message |-> exitMsg(c)]

\* inferFailedReason: the node phase and message of a Failed pod
inferFailedReason(pod) ==
    IF pod.message # "" THEN [phase |-> "Failed", message |-> pod.message]
    ELSE inferLoop(sortedCtrs(pod), 1)

\* cleanUpPod: whether terminateContainers is queued for the pod
cleanUpPod(pod) ==
    /\ ~ \E i \in DOMAIN pod.ctrs : pod.ctrs[i].name = "wait" /\ pod.ctrs[i].state # "terminated"
    /\ \E i \in DOMAIN pod.ctrs : pod.ctrs[i].state # "terminated"

(***************************************************************************)
(* assessNodeStatus: the node status a pod gives its node.  The result is  *)
(* the node as the function leaves it and whether it reports a change      *)
(* (nil otherwise).  The workflows modelled have no container-set          *)
(* templates, so no NAME.CONTAINER node exists and the loop over the       *)
(* container nodes marks nothing.                                          *)
(***************************************************************************)
\* the switch on pod.Status.Phase: newPhase, newDaemonStatus ("nil", "false", "true"), message, early return
podPhaseCase(pod, node) ==
    CASE pod.phase = "Pending" ->
           [newPhase |-> "Pending", newDaemon |-> "false", message |-> getPendingReason(pod), stop |-> FALSE]
      [] pod.phase = "Succeeded" ->
           [newPhase |-> "Succeeded", newDaemon |-> "false", message |-> "", stop |-> FALSE]
      [] pod.phase = "Failed" ->
           IF node.daemoned
             THEN [newPhase |-> "Succeeded", newDaemon |-> "false", message |-> "", stop |-> FALSE]
             ELSE LET r == inferFailedReason(pod)
                  IN [newPhase |-> r.phase, newDaemon |-> "false", message |-> r.message, stop |-> FALSE]
      [] pod.phase = "Running" ->
           IF pod.tmplAnn # "ok"
             THEN [newPhase |-> "Running", newDaemon |-> "nil", message |-> "", stop |-> TRUE]
           ELSE IF pod.daemon
             THEN IF \E i \in DOMAIN pod.ctrs : pod.ctrs[i].name # "init" /\ ~pod.ctrs[i].ready
                    THEN [newPhase |-> "Running", newDaemon |-> "nil", message |-> "", stop |-> TRUE]
                    ELSE [newPhase |-> "Running", newDaemon |-> "true", message |-> "", stop |-> FALSE]
           ELSE [newPhase |-> "Running", newDaemon |-> "nil", message |-> "", stop |-> FALSE]
      [] OTHER ->
           [newPhase |-> "Error", newDaemon |-> "nil", message |-> "Unexpected pod phase", stop |-> FALSE]

\* the daemoned flag after the newDaemonStatus block
daemonedAfter(c, node) ==
    IF c.newDaemon = "nil" THEN node.daemoned
    ELSE IF c.newDaemon = "true" THEN TRUE
    ELSE FALSE

\* the outputs block: runs when the node transitions to complete
outputsAfter(c, pod, node) ==
    IF ~Fulfilled(node.phase) /\ Fulfilled(c.newPhase) /\ getExitCode(pod) # -1
      THEN [set |-> TRUE, exit |-> getExitCode(pod), ann |-> pod.outputsAnn]
      ELSE node.outputs

\* whether the outputs annotation failed to parse in the outputs block
outputsParseError(c, pod, node) ==
    /\ ~Fulfilled(node.phase) /\ Fulfilled(c.newPhase) /\ getExitCode(pod) # -1
    /\ pod.outputsAnn = "bad"

assessNodeStatus(pod, node, t) ==
    LET \* the function after the switch: c is what the switch decided, perr whether
        \* the outputs block failed to parse the annotation
        afterSwitch(c, perr) ==
            LET dae == daemonedAfter(c, node)
                updDae == dae # node.daemoned
                \* phase and message after the outputs block
                ph1 == IF perr THEN "Error" ELSE node.phase
                msg1 == IF perr THEN "invalid outputs" ELSE node.message
                updPhase == ph1 # c.newPhase
                \* "if we are transitioning from Pending to a different state, clear out pending message"
                msg2 == IF updPhase /\ ph1 = "Pending" THEN "" ELSE msg1
                ph2 == c.newPhase
                updMsg == c.message # "" /\ msg2 # c.message
                msg3 == IF updMsg THEN c.message ELSE msg2
                setFin == Fulfilled(ph2) /\ node.finishedAt = 0
                fin0 == IF ~dae THEN getLatestFinishedAt(pod) ELSE 0
                fin == IF setFin THEN (IF fin0 = 0 THEN t ELSE fin0) ELSE node.finishedAt
            IN IF c.stop
                 THEN [node |-> node, updated |-> FALSE, cleanup |-> FALSE]
                 ELSE [node |-> [node EXCEPT !.phase = ph2, !.message = msg3, !.daemoned = dae,
                                             !.outputs = outputsAfter(c, pod, node),
                                             !.finishedAt = fin],
                       updated |-> updDae \/ updPhase \/ updMsg \/ setFin,
                       cleanup |-> pod.phase = "Running" /\ cleanUpPod(pod)]
        switched(c) == afterSwitch(c, outputsParseError(c, pod, node))
    IN switched(podPhaseCase(pod, node))

(***************************************************************************)
(* The operation context (wfOperationCtx).  An operation is a function     *)
(* from context to context; w.wf is woc.wf, w.orig is woc.orig, and the    *)
(* collaborators the operation calls (pods, the lock manager, the work     *)
(* queue) are carried along:                                               *)
(*   calls     the calls made to the collaborators, in order               *)
(*   phaseLog  every value assigned to woc.wf.Status.Phase, in order       *)
(*   panic     a panic is unwinding operate()                              *)
(*   done      the body of operate() has returned                          *)
(***************************************************************************)
\* what the phase derivation at the end of operate saw and did; ran is FALSE when it did not run
NoDerive == [ran |-> FALSE, entry |-> "", entryMessage |-> "", onExit |-> "", onExitMessage |-> "",
             set |-> <<>>, phase |-> "", message |-> "", panic |-> FALSE]

Call(op, node, arg) == [op |-> op, node |-> node, arg |-> arg]

\* failSuspendedAndPendingNodesAfterDeadlineOrShutdown has not run
NoStop == [ran |-> FALSE, shutdown |-> FALSE, deadlineExceeded |-> FALSE,
           pending |-> {}, suspended |-> {}, failed |-> {}]

\* no executeTemplate has returned ErrDeadlineExceeded
NoDeadline == [hit |-> FALSE, node |-> "", calls |-> 0, phase |-> "", held |-> {}]

\* whether the workflow object of the informer store holds its nodes offloaded: with
\* node status offloading the stored object carries a reference instead of the nodes
Offloaded(c, w0) == c.offload /\ DOMAIN w0.nodes # {}

newWorkflowOperationCtx(w0, ps, hd, busy, c, t, e) ==
    [wf |-> w0, orig |-> w0, updated |-> FALSE, activePods |-> 0,
     completedPods |-> {}, calls |-> <<>>, phaseLog |-> <<>>,
     panic |-> FALSE, escaped |-> FALSE, done |-> FALSE, requeue |-> FALSE,
     pods |-> ps, held |-> hd, busy |-> busy, cfg |-> c, now |-> t, env |-> e,
     onExitRan |-> FALSE, persisted |-> FALSE, err |-> "", res |-> "", server |-> w0,
     cont |-> TRUE, derive |-> NoDerive, updates |-> <<>>, panicked |-> FALSE,
     labelled |-> {}, cleanup |-> {}, outcome |-> "", persistLog |-> <<>>,
     origOffloaded |-> Offloaded(c, w0), cleared |-> FALSE,
     exit |-> [ran |-> FALSE, entry |-> "", node |-> ""], bodyLog |-> <<>>,
     execPhase |-> "", pvcs |-> "skipped", spawned |-> <<>>,
     checks |-> 0, deadline |-> NoDeadline, stopLog |-> NoStop, entryErr |-> ""]

HasNode(w, name) == name \in DOMAIN w.wf.nodes

SetNode(w, name, node) ==
    [w EXCEPT !.wf.nodes = [n \in (DOMAIN w.wf.nodes) \cup {name} |->
                               IF n = name THEN node ELSE w.wf.nodes[n]]]

AddCall(w, c) == [w EXCEPT !.calls = Append(w.calls, c)]

\* markNodePhase(nodeName, phase, message...): msgs is the variadic message
markNodePhase(w, name, phase, msgs) ==
    IF ~HasNode(w, name) THEN [w EXCEPT !.panic = TRUE]
    ELSE LET node == w.wf.nodes[name]
             chPhase == node.phase # phase
             chMsg == Len(msgs) > 0 /\ msgs[1] # node.message
             setFin == Fulfilled(phase) /\ node.finishedAt = 0
             n2 == [node EXCEPT !.phase = phase,
                                !.message = IF chMsg THEN msgs[1] ELSE node.message,
                                !.finishedAt = IF setFin THEN w.now ELSE node.finishedAt]
             w1 == SetNode(w, name, n2)
         IN [w1 EXCEPT !.updated = w.updated \/ chPhase \/ chMsg \/ setFin]

markNodeError(w, name, err) == markNodePhase(w, name, "Error", <<err>>)

markNodePending(w, name, err) == markNodePhase(w, name, "Pending", <<err>>)

Entry == "wf"                         \* the entry node is named as the workflow

(***************************************************************************)
(* markWorkflowPhase                                                       *)
(***************************************************************************)
\* WorkflowStatus.Fulfilled(), WorkflowPhase.Completed()
WfFulfilled(phase) == phase \in {"Succeeded", "Failed", "Error"}

hasDaemonNodes(w) == \E n \in DOMAIN w.wf.nodes : w.wf.nodes[n].daemoned

SetPhase(w, phase) ==
    [w EXCEPT !.wf.phase = phase, !.phaseLog = Append(w.phaseLog, phase), !.updated = TRUE]

\* createPDBResource and deletePDBResource: "" or the error of the PDB API
createPDBResource(w) == IF w.env.fault = "pdbFail" THEN "pdb create failed" ELSE ""

deletePDBResource(w) == IF w.env.fault = "pdbFail" THEN "pdb delete failed" ELSE ""

\* the block that marks the workflow completed and deletes the PDB
markCompletedBlock(w) ==
    LET w1 == [w EXCEPT !.wf.finishedAt = w.now, !.wf.completed = TRUE, !.updated = TRUE]
        w2 == AddCall(w1, Call("deletePDBResource", "", deletePDBResource(w)))
    IN IF deletePDBResource(w) # ""
         THEN [SetPhase(w2, "Error") EXCEPT !.wf.message = "pdb delete failed"]
         ELSE w2

markWorkflowPhase(w, phase, message) ==
    IF w.wf.phase # phase /\ WfFulfilled(w.wf.phase)
      THEN [w EXCEPT !.panic = TRUE]         \* log.Panic("workflow is already fulfilled")
    ELSE
      LET changed == w.wf.phase # phase
          \* the steps of the function, last first
          markCompleted(w4) ==
              IF WfFulfilled(phase) /\ changed /\ ~hasDaemonNodes(w4)
                THEN markCompletedBlock(w4)
                ELSE w4
          failEntryNode(w3) ==
              markCompleted(
                IF phase = "Error" /\ HasNode(w3, Entry) /\ w3.wf.nodes[Entry].phase = "Running"
                  THEN [SetNode(w3, Entry, [w3.wf.nodes[Entry] EXCEPT
                                               !.phase = "Error",
                                               !.message = "Workflow operation error"])
                          EXCEPT !.updated = TRUE]
                  ELSE w3)
          setMessage(w2) ==
              failEntryNode(IF w2.wf.message # message
                              THEN [w2 EXCEPT !.wf.message = message, !.updated = TRUE] ELSE w2)
          setStartedAt(w1) ==
              setMessage(IF w1.wf.startedAt = 0
                           THEN [w1 EXCEPT !.wf.startedAt = w.now, !.updated = TRUE] ELSE w1)
      IN setStartedAt(IF changed THEN SetPhase(w, phase) ELSE w)

markWorkflowRunning(w) == markWorkflowPhase(w, "Running", "")

markWorkflowSuccess(w) == markWorkflowPhase(w, "Succeeded", "")

markWorkflowFailed(w, message) == markWorkflowPhase(w, "Failed", message)

markWorkflowError(w, err) == markWorkflowPhase(w, "Error", err)

\* a grace window that has ended when the node is exactly that old
recentlyStartedStrict(node, t) == t - node.startedAt < RecentlyStartedPodDuration

\* recentlyStarted(node)
recentlyStarted(node, t) == t - node.startedAt <= RecentlyStartedPodDuration

(***************************************************************************)
(* podReconciliation.  performAssessment runs once per observed pod, each  *)
(* run under wfNodesLock; the pod named p belongs to the node named p.     *)
(***************************************************************************)
ObservedPods(w) == {p \in DOMAIN w.pods : w.pods[p].seen}

\* PodGC.Matches(podLabels): the pods carry no label the selector could miss, so a
\* selector that parses matches; match is TRUE too when no selector is set
PodGCMatches(w) == [match |-> TRUE, ok |-> w.cfg.podGCSelector # "bad"]

\* performAssessment runs in a goroutine of its own: no deferred recover of operate sees its panic
goroutinePanic(w) == IF w.panic THEN [w EXCEPT !.escaped = TRUE] ELSE w

\* the cache write of performAssessment: Cache.Save(key, nodeID, outputs) for a node
\* with a memoizationStatus; the call keeps the phase the node had when it was made
saveOutputs(w, p, node) ==
    IF node.memoizationStatus.set
      THEN AddCall(w, Call("Save", p, [key |-> node.memoizationStatus.key,
                                       phase |-> node.phase, outputs |-> node.outputs]))
      ELSE w

performAssessment(w, p) ==
    IF ~HasNode(w, p) THEN w
    ELSE LET pod == w.pods[p]
             \* the completed pods, once the assessment is stored in w2
             complete(w2) ==
                 LET node == w2.wf.nodes[p]
                     add == [w2 EXCEPT !.completedPods = w2.completedPods \cup {<<p, pod.phase>>}]
                 IN IF ~PodGCMatches(w).ok
                      THEN goroutinePanic(markWorkflowFailed(w2, "failed to parse label selector for pod GC"))
                    ELSE IF Fulfilled(node.phase) /\ ~node.daemoned
                      THEN IF pod.completed THEN w2 ELSE add
                      ELSE IF node.phase = "Succeeded" THEN add ELSE w2
             \* the assessment a stored in the workflow
             store(a) ==
                 LET w1 == IF a.updated
                             THEN [saveOutputs(SetNode(w, p, a.node), p, a.node)
                                     EXCEPT !.updated = TRUE]
                             ELSE w
                 IN complete(IF a.cleanup
                               THEN AddCall(w1, Call("queuePodForCleanup", p, "terminateContainers"))
                               ELSE w1)
         IN store(assessNodeStatus(pod, w.wf.nodes[p], w.now))

RECURSIVE assessAll(_, _)
assessAll(w, ps) ==
    IF ps = {} THEN w
    ELSE LET p == CHOOSE q \in ps : TRUE
         IN assessAll(performAssessment(w, p), ps \ {p})

\* the loop over the nodes after wg.Wait(): deleted pods and host names
checkDeletedPod(w, n, seen) ==
    LET node == w.wf.nodes[n] IN
    IF node.type # "Pod" \/ Fulfilled(node.phase) \/ node.startedAt = 0 THEN w
    ELSE IF n \notin seen
      THEN IF node.phase = "Pending" /\ WaitingForSyncLock(node) THEN w
           ELSE IF recentlyStarted(node, w.now) THEN [w EXCEPT !.requeue = TRUE]
           ELSE LET w1 == IF node.daemoned THEN [w EXCEPT !.updated = TRUE] ELSE w
                IN markNodePhase(w1, n, "Error", <<"pod deleted">>)
      ELSE IF node.host # w.pods[n].host
             THEN [SetNode(w, n, [node EXCEPT !.host = w.pods[n].host]) EXCEPT !.updated = TRUE]
             ELSE w

RECURSIVE checkDeletedPods(_, _, _)
checkDeletedPods(w, ns, seen) ==
    IF ns = {} THEN w
    ELSE LET n == CHOOSE m \in ns : TRUE
         IN checkDeletedPods(checkDeletedPod(w, n, seen), ns \ {n}, seen)

podReconciliation(w) ==
    LET seen == ObservedPods(w)
        \* the loop over the nodes, after wg.Wait()
        afterWait(w1) == checkDeletedPods(w1, DOMAIN w1.wf.nodes, seen)
    IN afterWait(assessAll(w, seen))

(***************************************************************************)
(* The workflow object and the workflow spec                               *)
(***************************************************************************)
OnExitName == "wf.onExit"             \* common.GenerateOnExitNodeName
ChildName(parent, k) == parent \o "(" \o ToString(k) \o ")"

NewWorkflow ==
    [phase |-> "Unknown", message |-> "", nodes |-> <<>>, rv |-> 1,
     startedAt |-> 0, finishedAt |-> 0, completed |-> FALSE, artifactRef |-> FALSE]

\* a workflow spec: one container template as entrypoint, options on it
NewSpec(retry, onExit, par, sync, daemon) ==
    [retry |-> retry, policy |-> "Always", onExit |-> onExit, parallelism |-> par,
     sync |-> sync, daemon |-> daemon, shutdown |-> "", podGCSelector |-> "", podGC |-> "nil",
     offload |-> FALSE, suspend |-> FALSE, wfSync |-> FALSE, pvc |-> FALSE,
     backoff |-> FALSE, duration |-> 0, factor |-> -1, maxDuration |-> 0,
     limit |-> RetryLimit, activeDeadline |-> 0, memoize |-> FALSE, maxAge |-> -1,
     suspendTmpl |-> FALSE, suspendDuration |-> -1]

\* Cache.Load finds no entry
NoEntry == [exists |-> FALSE, age |-> 0, outputs |-> NoOutputs]

NoEnv == [fault |-> "none", pod |-> "ok", late |-> 0, entry |-> NoEntry]

NoLast == [calls |-> <<>>, phaseLog |-> <<>>, escaped |-> FALSE, requeue |-> FALSE,
           persisted |-> FALSE, completedPods |-> {}, updated |-> FALSE, activePods |-> 0,
           derive |-> NoDerive, activeNodes |-> 0, panicked |-> FALSE, err |-> "",
           persistLog |-> <<>>, cleared |-> FALSE,
           exit |-> [ran |-> FALSE, entry |-> "", node |-> ""],
           message |-> "", nodesChanged |-> FALSE, bodyLog |-> <<>>, execPhase |-> "",
           pvcs |-> "skipped", spawned |-> <<>>, cont |-> TRUE, outcome |-> "", updates |-> <<>>,
           cleanup |-> {}, deadline |-> NoDeadline, loaded |-> NoEntry, stopLog |-> NoStop,
           entryErr |-> ""]

(***************************************************************************)
(* The pods the environment shows                                          *)
(***************************************************************************)
PodPending == NewPod("Pending", <<Ctr("wait", "waiting", 0, FALSE, 0), Ctr("main", "waiting", 0, FALSE, 0)>>)

PodRunning(daemon, ready) ==
    [NewPod("Running", <<Ctr("wait", "running", 0, ready, 0), Ctr("main", "running", 0, ready, 0)>>)
        EXCEPT !.daemon = daemon]

PodSucceeded(ann) ==
    [NewPod("Succeeded", <<Ctr("wait", "terminated", 0, FALSE, 3), Ctr("main", "terminated", 0, FALSE, 2)>>)
        EXCEPT !.outputsAnn = ann]

\* a Failed pod: the container named by who exited with the code
PodFailed(who, code, daemon) ==
    [NewPod("Failed", <<Ctr("init", "terminated", IF who = "init" THEN code ELSE 0, FALSE, 1),
                        Ctr("wait", "terminated", IF who = "wait" THEN code ELSE 0, FALSE, 3),
                        Ctr("main", "terminated", IF who = "main" THEN code ELSE 0, FALSE, 2),
                        Ctr("sidecar", "terminated", IF who = "sidecar" THEN code ELSE 0, FALSE, 3)>>)
        EXCEPT !.daemon = daemon]

PodInputs ==
    {PodPending} \cup {PodRunning(d, r) : d \in BOOLEAN, r \in BOOLEAN}
    \cup {PodSucceeded(a) : a \in {"none", "ok", "bad"}}
    \cup {PodFailed(who, 1, d) : who \in {"init", "main", "wait", "sidecar"}, d \in BOOLEAN}
    \cup {PodFailed("sidecar", 137, d) : d \in BOOLEAN}
    \cup {[PodFailed("main", 1, FALSE) EXCEPT !.message = "evicted"]}
    \cup {NewPod("Unknown", <<>>)}

\* the pod nodes the operator leaves behind: a daemoned node is Running
NodeInputs ==
    {[NewNode("Pod", ph, m, 1) EXCEPT !.host = "h1"] :
        ph \in {"Pending", "Running"}, m \in {"", "ContainerCreating"}}
    \cup {[NewNode("Pod", "Running", "", 1) EXCEPT !.daemoned = TRUE, !.host = "h1"]}
    \cup {[NewNode("Pod", ph, "", 1) EXCEPT !.host = "h1"] : ph \in {"Succeeded", "Failed", "Error"}}

(***************************************************************************)
(* SpecAssess: podReconciliation applied again and again to one pod        *)
(* snapshot of one pod node                                                *)
(***************************************************************************)
InitAssess ==
    /\ \E node \in NodeInputs : wf = [NewWorkflow EXCEPT !.phase = "Running", !.nodes = (Entry :> node)]
    /\ \E pod \in PodInputs : pods = (Entry :> pod)
    /\ now = 20
    /\ held = {} /\ lockBusy = FALSE
    /\ last = NoLast
    /\ cfg = NewSpec(FALSE, FALSE, -1, FALSE, FALSE)
    /\ ops = 0
    /\ srv = NewWorkflow /\ woc = <<>> /\ gpc = <<>> /\ seenPods = {}

\* one podReconciliation of the workflow with the pods as they are
AssessSnapshot ==
    /\ ops < 2
    /\ LET reconciled(w) ==
               /\ wf' = w.wf
               /\ last' = [NoLast EXCEPT !.calls = w.calls, !.updated = w.updated,
                                         !.completedPods = w.completedPods, !.requeue = w.requeue]
       IN reconciled(podReconciliation(newWorkflowOperationCtx(wf, pods, held, lockBusy, cfg, now, NoEnv)))
    /\ ops' = ops + 1
    /\ UNCHANGED <<pods, now, held, lockBusy, cfg, srv, woc, gpc, seenPods>>

NextAssess == AssessSnapshot

SpecAssess == InitAssess /\ [][NextAssess]_vars

\* the fields of a node status the assessment decides
AssessedFields(node) == <<node.phase, node.message, node.daemoned, node.outputs>>

\* C8: idempotent pod assessment: applying the same pod snapshot a second time
\* changes no node's phase, message, daemoned flag or outputs.
C8_IdempotentAssessment ==
    [][ops = 1 => \A n \in DOMAIN wf.nodes : AssessedFields(wf'.nodes[n]) = AssessedFields(wf.nodes[n])]_vars

(***************************************************************************)
(* Node initialization                                                     *)
(***************************************************************************)
\* initializeNode: panics when the node exists
initializeNode(w, name, type, phase, msgs) ==
    IF HasNode(w, name) THEN [w EXCEPT !.panic = TRUE]
    ELSE [SetNode(w, name, NewNode(type, phase, IF Len(msgs) > 0 THEN msgs[1] ELSE "", w.now))
            EXCEPT !.updated = TRUE]

initializeExecutableNode(w, name, type, phase, msgs) == initializeNode(w, name, type, phase, msgs)

markNodeWaitingForLock(w, name, lockName) ==
    IF ~HasNode(w, name) THEN w
    ELSE [SetNode(w, name, [w.wf.nodes[name] EXCEPT !.waiting = lockName]) EXCEPT !.updated = TRUE]

\* addChildNode(parent, child)
addChildNode(w, parent, child) ==
    IF ~HasNode(w, parent) THEN [w EXCEPT !.panic = TRUE]
    ELSE LET node == w.wf.nodes[parent] IN
         IF \E i \in DOMAIN node.children : node.children[i] = child THEN w
         ELSE [SetNode(w, parent, [node EXCEPT !.children = Append(node.children, child)])
                 EXCEPT !.updated = TRUE]

(***************************************************************************)
(* The collaborators: the lock manager and the pod manager                 *)
(***************************************************************************)
\* SyncManager.TryAcquire(wf, nodeID, sync) on a mutex: whether the node holds the lock afterwards
CanAcquire(w, n) == n \in w.held \/ (w.held = {} /\ ~w.busy)

TryAcquire(w, n) ==
    LET ok == CanAcquire(w, n)
        w1 == AddCall(w, Call("TryAcquire", n, ok))
    IN IF ok THEN [w1 EXCEPT !.held = w.held \cup {n}] ELSE w1

\* SyncManager.Release(wf, nodeID, sync): a call with a nil sync does nothing
Release(w, n, sync) ==
    IF ~sync THEN w
    ELSE [AddCall(w, Call("Release", n, n \in w.held)) EXCEPT !.held = w.held \ {n}]

\* getActivePods(""): the Pod nodes that are Pending or Running
getActivePods(w) ==
    Cardinality({n \in DOMAIN w.wf.nodes :
                    w.wf.nodes[n].type = "Pod" /\ w.wf.nodes[n].phase \in {"Pending", "Running"}})

\* createWorkflowPod: "" or the error; an existing pod is returned as it is
createWorkflowPod(w, name) ==
    IF name \in DOMAIN w.pods THEN [w EXCEPT !.err = ""]
    ELSE IF w.env.pod # "ok"
      THEN [AddCall(w, Call("CreatePod", name, w.env.pod)) EXCEPT !.err = w.env.pod]
    ELSE [AddCall(w, Call("CreatePod", name, "ok")) EXCEPT
            !.pods = (name :> [PodPending EXCEPT !.seen = FALSE, !.daemon = w.cfg.daemon /\ name # OnExitName])
                        @@ w.pods,
            !.activePods = w.activePods + 1,
            !.err = ""]

(***************************************************************************)
(* processNodeRetries.  Durations are whole seconds; an unset duration     *)
(* string is 0, a nil factor or limit is -1.                               *)
(***************************************************************************)
RECURSIVE Pow(_, _)
Pow(b, e) == IF e <= 0 THEN 1 ELSE b * Pow(b, e - 1)

\* getChildNodeIndex(node, nodes, index): the child's name, "" for nil
getChildNodeIndex(w, node, index) ==
    IF Len(node.children) <= 0 THEN ""
    ELSE node.children[(IF index < 0 THEN Len(node.children) + index ELSE index) + 1]

\* a classification that never finds an error transient
IsTransientErrNever(msg) == FALSE

IsTransientErr(msg) == msg = "transient"

ShutdownEnabled(w) == w.cfg.shutdown # ""

StoppedMessage(w) == "Stopped with strategy '" \o w.cfg.shutdown \o "'"

\* a wait that multiplies by the factor once too often
timeToWaitOffByOne(rs, K) ==
    IF rs.factor > 0 THEN rs.duration * Pow(rs.factor, K) ELSE rs.duration

\* timeToWait of the backoff branch
timeToWait(rs, K) ==
    IF rs.factor > 0 THEN rs.duration * Pow(rs.factor, K - 1) ELSE rs.duration

\* the cases of the switch on retryStrategy.RetryPolicy
KnownRetryPolicies == {"Always", "OnError", "OnTransientError", "OnFailure", ""}

retryOnFailed(rs, lastChild) ==
    CASE rs.policy = "Always" -> TRUE
      [] rs.policy = "OnError" -> FALSE
      [] rs.policy = "OnTransientError" -> FailedOrError(lastChild.phase) /\ IsTransientErr(lastChild.message)
      [] OTHER -> TRUE

\* a classification that treats an errored child like a failed one
retryOnErrorAsFailed(rs, lastChild) == retryOnFailed(rs, lastChild)

retryOnError(rs, lastChild) ==
    CASE rs.policy = "Always" -> TRUE
      [] rs.policy = "OnError" -> TRUE
      [] rs.policy = "OnTransientError" -> FailedOrError(lastChild.phase) /\ IsTransientErr(lastChild.message)
      [] OTHER -> FALSE

\* the part of processNodeRetries after the backoff block
retryPolicyStep(w, name, rs, lastChild) ==
    LET node == w.wf.nodes[name] IN
    IF rs.policy \notin KnownRetryPolicies
      THEN [w EXCEPT !.cont = FALSE, !.err = rs.policy \o " is not a valid RetryPolicy"]
    ELSE IF (lastChild.phase = "Failed" /\ ~retryOnFailed(rs, lastChild))
         \/ (lastChild.phase = "Error" /\ ~retryOnError(rs, lastChild))
      THEN [markNodePhase(w, name, lastChild.phase, <<lastChild.message>>) EXCEPT !.cont = TRUE, !.err = ""]
    ELSE IF ~FailedOrError(lastChild.phase)                       \* !lastChildNode.CanRetry()
      THEN [markNodePhase(w, name, lastChild.phase, <<lastChild.message>>) EXCEPT !.cont = TRUE, !.err = ""]
    ELSE IF rs.limit >= 0 /\ Len(node.children) > rs.limit
      THEN [markNodePhase(w, name, lastChild.phase, <<"No more retries left">>) EXCEPT !.cont = TRUE, !.err = ""]
    ELSE [w EXCEPT !.cont = TRUE, !.err = ""]

\* a backoff block that never waits
retryBackoffStepNoWait(w, name, rs, lastChild) ==
    retryPolicyStep(markNodePhase(w, name, w.wf.nodes[name].phase, <<"">>), name, rs, lastChild)

\* a backoff block that ignores maxDuration
retryBackoffStepNoMax(w, name, rs, lastChild) ==
    LET node == w.wf.nodes[name]
        wait == timeToWait(rs, Len(node.children))
    IN IF rs.duration = 0
         THEN [w EXCEPT !.cont = FALSE, !.err = "no base duration specified for retryStrategy"]
       ELSE IF w.now < lastChild.finishedAt + wait
         THEN [markNodePhase(AddCall([w EXCEPT !.requeue = TRUE], Call("requeueAfter", name, wait)),
                             name, node.phase, <<"Backoff for " \o ToString(wait)>>)
                 EXCEPT !.cont = FALSE, !.err = ""]
       ELSE retryPolicyStep(markNodePhase(w, name, node.phase, <<"">>), name, rs, lastChild)

\* the backoff block of processNodeRetries
retryBackoffStep(w, name, rs, lastChild) ==
    LET node == w.wf.nodes[name]
        K == Len(node.children)
        hasMax == rs.maxDuration # 0 /\ K > 0
        maxDurationDeadline ==
            IF hasMax THEN w.wf.nodes[getChildNodeIndex(w, node, 0)].startedAt + rs.maxDuration ELSE 0
        wait == timeToWait(rs, K)
        waitingDeadline == lastChild.finishedAt + wait
    IN IF hasMax /\ w.now > maxDurationDeadline
         THEN [markNodePhase(w, name, lastChild.phase, <<"Max duration limit exceeded">>)
                 EXCEPT !.cont = TRUE, !.err = ""]
       ELSE IF rs.duration = 0
         THEN [w EXCEPT !.cont = FALSE, !.err = "no base duration specified for retryStrategy"]
       ELSE IF maxDurationDeadline # 0 /\ waitingDeadline > maxDurationDeadline
         THEN [markNodePhase(w, name, lastChild.phase, <<"Backoff would exceed max duration limit">>)
                 EXCEPT !.cont = TRUE, !.err = ""]
       ELSE IF w.now < waitingDeadline
         THEN [markNodePhase(AddCall([w EXCEPT !.requeue = TRUE], Call("requeueAfter", name, wait)),
                             name, node.phase, <<"Backoff for " \o ToString(wait)>>)
                 EXCEPT !.cont = FALSE, !.err = ""]
       ELSE retryPolicyStep(markNodePhase(w, name, node.phase, <<"">>), name, rs, lastChild)

processNodeRetries(w, name, rs) ==
    LET node == w.wf.nodes[name]
        lastName == getChildNodeIndex(w, node, -1)
    IN IF Fulfilled(node.phase) \/ lastName = "" THEN [w EXCEPT !.cont = TRUE, !.err = ""]
       ELSE IF lastName \notin DOMAIN w.wf.nodes THEN [w EXCEPT !.panic = TRUE]
       ELSE LET lastChild == w.wf.nodes[lastName] IN
            IF ~Fulfilled(lastChild.phase) THEN [w EXCEPT !.cont = TRUE, !.err = ""]
            ELSE IF ~FailedOrError(lastChild.phase)
              THEN [markNodePhase(SetNode(w, name, [node EXCEPT !.outputs = lastChild.outputs]),
                                  name, "Succeeded", <<>>)
                      EXCEPT !.cont = TRUE, !.err = ""]
            ELSE IF ShutdownEnabled(w)
              THEN [markNodePhase(w, name, lastChild.phase, <<StoppedMessage(w)>>)
                      EXCEPT !.cont = TRUE, !.err = ""]
            ELSE IF rs.backoff THEN retryBackoffStep(w, name, rs, lastChild)
            ELSE retryPolicyStep(w, name, rs, lastChild)

(***************************************************************************)
(* executeTemplate for a container template, with or without a retry       *)
(* strategy and a mutex.  The returned node is w.res ("" for nil), the     *)
(* returned error is w.err.                                                *)
(***************************************************************************)
NewTmpl(retry, sync) == [retry |-> retry, sync |-> sync, memoize |-> FALSE, suspend |-> FALSE]

\* the workflow-level check of checkParallelism
checkParallelism(w) ==
    IF w.cfg.parallelism >= 0 /\ w.activePods >= w.cfg.parallelism
      THEN "ErrParallelismReached" ELSE ""

\* a handling that returns a transient error like any other
requeueIfTransientErrNever(w, name) == [w EXCEPT !.res = ""]

requeueIfTransientErr(w, name) ==
    IF IsTransientErr(w.err)
      THEN [markNodePending([w EXCEPT !.requeue = TRUE], name, w.err) EXCEPT !.res = name, !.err = ""]
      ELSE [w EXCEPT !.res = ""]

executeContainer(w, name) ==
    LET created(w2) ==
            IF w2.err # "" THEN requeueIfTransientErr(w2, name) ELSE [w2 EXCEPT !.res = name]
    IN created(createWorkflowPod(IF HasNode(w, name) THEN w
                                 ELSE initializeExecutableNode(w, name, "Pod", "Pending", <<>>),
                                 name))

\* getWorkflowDeadline: 0 is no deadline
getWorkflowDeadline(w) ==
    IF w.cfg.activeDeadline = 0 \/ w.wf.startedAt = 0 THEN 0
    ELSE w.wf.startedAt + w.cfg.activeDeadline

\* "Suspension is expired, node can be resumed"
suspensionExpired(w, name) ==
    w.cfg.suspendDuration # -1
        /\ w.now > w.wf.nodes[name].startedAt + w.cfg.suspendDuration

\* the time executeSuspend requeues the workflow for, 0 for none
suspendRequeueTime(w, name) ==
    LET suspendDeadline == w.wf.nodes[name].startedAt + w.cfg.suspendDuration
        workflowDeadline == getWorkflowDeadline(w)
    IN IF w.cfg.suspendDuration = -1 THEN workflowDeadline
       ELSE IF workflowDeadline # 0 /\ workflowDeadline < suspendDeadline THEN workflowDeadline
       ELSE suspendDeadline

\* executeSuspend for a node that exists
suspendNode(w, name) ==
    IF w.panic THEN w
    ELSE IF suspensionExpired(w, name)
      THEN [markNodePhase(w, name, "Succeeded", <<>>) EXCEPT !.res = name, !.err = ""]
    ELSE [markNodePhase(IF suspendRequeueTime(w, name) # 0
                          THEN AddCall([w EXCEPT !.requeue = TRUE],
                                       Call("requeueAfter", name,
                                            suspendRequeueTime(w, name) - w.now))
                          ELSE w,
                        name, "Running", <<>>)
            EXCEPT !.res = name, !.err = ""]

executeSuspend(w, name) ==
    suspendNode(IF HasNode(w, name) THEN w
                ELSE initializeExecutableNode(w, name, "Suspend", "Pending", <<>>),
                name)

\* wfutil.GetNodeType(tmpl)
GetNodeType(tmpl) == IF tmpl.retry THEN "Retry" ELSE "Pod"

\* the synchronization block; cont = FALSE when executeTemplate returns from it
syncStep(w, name, tmpl) ==
    LET acquired == CanAcquire(w, name)
        wfUpdated == acquired /\ name \notin w.held
        afterTryAcquire(w1) ==
            IF ~acquired
              THEN [markNodeWaitingForLock(
                      IF HasNode(w1, name) THEN w1
                      ELSE initializeExecutableNode(w1, name, GetNodeType(tmpl), "Pending",
                                                    <<"Waiting for lock">>),
                      name, "lock")
                      EXCEPT !.res = name, !.err = "", !.cont = FALSE]
              ELSE [(IF HasNode(w1, name) THEN markNodeWaitingForLock(w1, name, "") ELSE w1)
                      EXCEPT !.updated = wfUpdated, !.cont = TRUE,
                             !.cleared = w1.cleared \/ (w1.updated /\ ~wfUpdated)]
    IN afterTryAcquire(TryAcquire(w, name))

RetryPolicies == {"Always", "OnError", "OnTransientError"}

RECURSIVE executeTemplate(_, _, _)

\* from the dispatch on the template type to the end of executeTemplate
dispatchStep(w, retryNodeName, name, tmpl) ==
    LET \* the steps of the function, last first
        \* the retry node executed again
        swapped(w4) ==
            IF w4.err # "" /\ ~w4.panic
              THEN [markNodeError(w4, name, w4.err) EXCEPT !.res = name]
              ELSE w4
        \* "swap the node back to retry node"
        swap(w3) ==
            IF retryNodeName = "" THEN [w3 EXCEPT !.res = name, !.err = ""]
            ELSE IF ~Fulfilled(w3.wf.nodes[retryNodeName].phase) /\ Fulfilled(w3.wf.nodes[name].phase)
              THEN swapped(executeTemplate([w3 EXCEPT !.err = ""], retryNodeName, tmpl))
            ELSE [w3 EXCEPT !.res = retryNodeName, !.err = ""]
        \* w1 is what the template execution left, w2 is w1 after the error handling
        afterError(w1, w2) ==
            IF w1.panic THEN w1
            ELSE IF w1.err # "" /\ (~tmpl.retry \/ w.cfg.policy \notin RetryPolicies)
              THEN [w2 EXCEPT !.res = name]
            ELSE swap(IF Fulfilled(w2.wf.nodes[name].phase) THEN Release(w2, name, tmpl.sync) ELSE w2)
        executed(w1) ==
            afterError(w1, IF w1.err # ""
                             THEN Release(markNodeError(w1, name, w1.err), name, tmpl.sync)
                             ELSE w1)
    IN executed(IF tmpl.suspend THEN executeSuspend(w, name) ELSE executeContainer(w, name))

\* the retry block
retryStep(w, name, tmpl) ==
    LET \* the child to execute: the last one when it is not fulfilled, else a new one
        dispatch(w3, child) == dispatchStep(w3, name, child, tmpl)
        \* a new child: what the retry node looked like when the child was appended
        spawn(w3, child) ==
            [addChildNode(w3, name, child) EXCEPT
                !.spawned = Append(w3.spawned,
                                   [name |-> child, children |-> w3.wf.nodes[name].children,
                                    phases |-> [i \in DOMAIN w3.wf.nodes[name].children |->
                                                   w3.wf.nodes[w3.wf.nodes[name].children[i]].phase],
                                    now |-> w3.now])]
        processed(w2) ==
            IF w2.panic THEN w2
            ELSE IF w2.err # "" THEN [markNodeError(w2, name, w2.err) EXCEPT !.res = name]
            ELSE IF ~w2.cont THEN [w2 EXCEPT !.res = name]
            ELSE IF Fulfilled(w2.wf.nodes[name].phase)
              THEN [Release(w2, name, tmpl.sync) EXCEPT !.res = name]
            ELSE
              LET parent == w2.wf.nodes[name]
                  lastName == getChildNodeIndex(w2, parent, -1)
                  child == ChildName(name, Len(parent.children))
              IN IF lastName # "" /\ ~Fulfilled(w2.wf.nodes[lastName].phase)
                   THEN dispatch(w2, lastName)
                   ELSE dispatch(spawn(w2, child), child)
        initialized(w1) ==
            IF w1.panic THEN w1 ELSE processed(processNodeRetries(w1, name, w.cfg))
    IN initialized(IF HasNode(w, name) THEN w
                   ELSE initializeExecutableNode(w, name, "Retry", "Running", <<>>))

\* the key and the cache of the memoized template
MemoizeKey == "K"
MemoizeCacheName == "cache"

\* a hit that does not look at the age of the entry
cacheHitAnyAge(entry, maxAge) == entry.exists

\* Entry.Hit() and Entry.GetOutputsWithMaxAge(maxAge): an entry older than maxAge is no hit
cacheHit(entry, maxAge) == entry.exists /\ (maxAge # -1 => entry.age <= maxAge)

\* the node of a memoized template gets its memoizationStatus
setMemoizationStatus(w, name, memStat) ==
    IF w.panic THEN w
    ELSE SetNode(w, name, [w.wf.nodes[name] EXCEPT !.memoizationStatus = memStat])

\* initializeCacheNode
initializeCacheNode(w, name, memStat) ==
    setMemoizationStatus(initializeExecutableNode(w, name, "Pod", "Pending", <<>>), name, memStat)

\* the node of a cache hit is Succeeded with the cached outputs
setCachedOutputs(w, name, outputs) ==
    IF w.panic THEN w
    ELSE SetNode(w, name, [w.wf.nodes[name] EXCEPT !.phase = "Succeeded",
                                                  !.outputs = outputs,
                                                  !.finishedAt = w.now])

\* initializeCacheHitNode
initializeCacheHitNode(w, name, outputs, memStat) ==
    setCachedOutputs(initializeCacheNode(w, name, memStat), name, outputs)

\* the memoization block of executeTemplate, entered for a memoized template without node
memoizationStep(w, name) ==
    LET entry == w.env.entry
        hit == cacheHit(entry, w.cfg.maxAge)
        memoizationStatus == [set |-> TRUE, hit |-> hit, key |-> MemoizeKey,
                              cacheName |-> MemoizeCacheName]
        loaded == AddCall(w, Call("Load", name, hit))
    IN [(IF hit THEN initializeCacheHitNode(loaded, name, entry.outputs, memoizationStatus)
         ELSE initializeCacheNode(loaded, name, memoizationStatus))
          EXCEPT !.updated = TRUE]

\* time.Now().UTC().After(woc.deadline): env.late is the number of the check of this
\* reconciliation from which on the operation deadline has passed, 0 when it never does
DeadlinePassed(w) == w.env.late # 0 /\ w.checks >= w.env.late

\* a deadline return that does not requeue the workflow
returnDeadlineNoRequeue(w, name, node) ==
    [w EXCEPT !.res = node, !.err = "ErrDeadlineExceeded",
              !.deadline = IF w.deadline.hit THEN w.deadline
                           ELSE [hit |-> TRUE, node |-> name, calls |-> Len(w.calls),
                                 phase |-> w.wf.phase, held |-> w.held]]

\* "Deadline exceeded": requeue and return ErrDeadlineExceeded; deadline keeps what the
\* reconciliation had done when the first such return happened
returnDeadlineExceeded(w, name, node) ==
    [w EXCEPT !.requeue = TRUE, !.res = node, !.err = "ErrDeadlineExceeded",
              !.deadline = IF w.deadline.hit THEN w.deadline
                           ELSE [hit |-> TRUE, node |-> name, calls |-> Len(w.calls),
                                 phase |-> w.wf.phase, held |-> w.held]]

\* executeTemplate after the synchronization block
executeSynchronized(w, name, tmpl) ==
    IF w.panic \/ ~w.cont THEN w
    ELSE IF tmpl.retry THEN retryStep(w, name, tmpl)
    ELSE dispatchStep(w, "", name, tmpl)

\* executeTemplate from checkParallelism on; node is the node to return, "" for nil
executeGuarded(w, name, tmpl, node) ==
    IF checkParallelism(w) # ""
      THEN [w EXCEPT !.res = node, !.err = checkParallelism(w)]
      ELSE executeSynchronized(IF tmpl.sync THEN syncStep(w, name, tmpl)
                               ELSE [w EXCEPT !.cont = TRUE],
                               name, tmpl)

\* executeTemplate from the check of the operation deadline on
executeChecked(w, name, tmpl, node) ==
    IF DeadlinePassed(w) THEN returnDeadlineExceeded(w, name, node)
    ELSE executeGuarded(w, name, tmpl, node)

\* executeTemplate from the check of a fulfilled node on
executeNode(w, name, tmpl) ==
    IF w.panic THEN w
    ELSE IF HasNode(w, name) /\ Fulfilled(w.wf.nodes[name].phase)
      THEN [Release(w, name, tmpl.sync) EXCEPT !.res = name, !.err = ""]
    ELSE executeChecked([(IF HasNode(w, name) /\ w.wf.nodes[name].startedAt = 0
                            THEN [SetNode(w, name, [w.wf.nodes[name] EXCEPT !.startedAt = w.now])
                                    EXCEPT !.updated = TRUE]
                            ELSE w)
                           EXCEPT !.checks = @ + 1],
                        name, tmpl, IF HasNode(w, name) THEN name ELSE "")

executeTemplate(w, name, tmpl) ==
    IF w.panic THEN w
    ELSE executeNode(IF ~HasNode(w, name) /\ tmpl.memoize THEN memoizationStep(w, name) ELSE w,
                     name, tmpl)

(***************************************************************************)
(* operate                                                                 *)
(***************************************************************************)
\* woc.workflowDeadline != nil && time.Now().UTC().After(*woc.workflowDeadline)
workflowDeadlineExceeded(w) ==
    w.cfg.activeDeadline # 0 /\ w.now > w.wf.startedAt + w.cfg.activeDeadline

\* IsActiveSuspendNode
IsActiveSuspendNode(node) == node.type = "Suspend" /\ node.phase = "Running"

\* what failSuspendedAndPendingNodesAfterDeadlineOrShutdown found (w0) and left (w1): the
\* nodes still Pending, the suspend nodes still active, the nodes it changed and their message
stopSnapshot(w0, w1) ==
    [w1 EXCEPT !.stopLog =
        [ran |-> TRUE, shutdown |-> ShutdownEnabled(w0),
         deadlineExceeded |-> workflowDeadlineExceeded(w0),
         pending |-> {n \in DOMAIN w1.wf.nodes : w1.wf.nodes[n].phase = "Pending"},
         suspended |-> {n \in DOMAIN w1.wf.nodes : IsActiveSuspendNode(w1.wf.nodes[n])},
         failed |-> {<<n, w1.wf.nodes[n].phase, w1.wf.nodes[n].message>> :
                        n \in {m \in DOMAIN w1.wf.nodes : w1.wf.nodes[m] # w0.wf.nodes[m]}}]]

failSuspendedAndPendingNodesAfterDeadlineOrShutdown(w) ==
    LET deadlineExceeded == workflowDeadlineExceeded(w)
        hit == {n \in DOMAIN w.wf.nodes :
                   \/ (w.wf.nodes[n].type = "Suspend" /\ w.wf.nodes[n].phase = "Running")
                   \/ (w.wf.nodes[n].phase = "Pending" /\ deadlineExceeded)}
        message == IF ShutdownEnabled(w) THEN StoppedMessage(w) ELSE "Step exceeded its deadline"
        failed(n) == [w.wf.nodes[n] EXCEPT !.phase = "Failed", !.message = message,
                                           !.finishedAt = IF @ = 0 THEN w.now ELSE @]
    IN IF (ShutdownEnabled(w) \/ deadlineExceeded) /\ hit # {}
         THEN [w EXCEPT !.wf.nodes = [n \in DOMAIN w.wf.nodes |->
                                         IF n \in hit THEN failed(n) ELSE w.wf.nodes[n]],
                        !.updated = TRUE]
         ELSE w

\* a status map that confuses Failed and Error
workflowStatusSwapped(phase) ==
    CASE phase = "Pending" -> "Pending"
      [] phase = "Running" -> "Running"
      [] phase \in {"Succeeded", "Skipped", "Omitted"} -> "Succeeded"
      [] phase = "Failed" -> "Error"
      [] phase = "Error" -> "Failed"
      [] OTHER -> ""

\* the workflowStatus map of operate
workflowStatus(phase) ==
    CASE phase = "Pending" -> "Pending"
      [] phase = "Running" -> "Running"
      [] phase \in {"Succeeded", "Skipped", "Omitted"} -> "Succeeded"
      [] phase = "Failed" -> "Failed"
      [] phase = "Error" -> "Error"
      [] OTHER -> ""

NoNode == [phase |-> "none", message |-> ""]

\* a derivation in which a failed or errored onExit node decides whatever the entry node is
markDerivedPhaseOnExitFirst(w, node, onExitNode) ==
    IF onExitNode.phase = "Failed" THEN markWorkflowFailed(w, onExitNode.message)
    ELSE IF onExitNode.phase = "Error" THEN markWorkflowError(w, onExitNode.message)
    ELSE IF workflowStatus(node.phase) = "Succeeded" THEN markWorkflowSuccess(w)
    ELSE markWorkflowPhase(w, workflowStatus(node.phase), node.message)

\* the switch on workflowStatus that ends operate; onExitNode is NoNode for nil
markDerivedPhase(w, node, onExitNode) ==
    LET workflowMessage == IF FailedOrError(node.phase) /\ ShutdownEnabled(w)
                             THEN StoppedMessage(w) ELSE node.message
        status == workflowStatus(node.phase)
    IN CASE status = "Succeeded" ->
              IF FailedOrError(onExitNode.phase)
                THEN IF onExitNode.phase = "Failed"
                       THEN markWorkflowFailed(w, onExitNode.message)
                       ELSE markWorkflowError(w, onExitNode.message)
                ELSE markWorkflowSuccess(w)
         [] status = "Failed" -> markWorkflowFailed(w, workflowMessage)
         [] status = "Error" -> markWorkflowPhase(w, "Error", workflowMessage)
         [] OTHER -> markWorkflowError(w, "Unexpected node phase")

\* the same, with what the step saw and did kept for inspection
derivePhase(w, node, onExitNode) ==
    LET marked(w1) ==
            [w1 EXCEPT !.derive = [ran |-> TRUE, entry |-> node.phase, entryMessage |-> node.message,
                                   onExit |-> onExitNode.phase, onExitMessage |-> onExitNode.message,
                                   set |-> SubSeq(w1.phaseLog, Len(w.phaseLog) + 1, Len(w1.phaseLog)),
                                   phase |-> w1.wf.phase, message |-> w1.wf.message,
                                   panic |-> w1.panic]]
    IN marked(markDerivedPhase(w, node, onExitNode))

\* a strategy check that lets the exit handler run under every strategy
ShouldExecuteOnExitAlways(w) == TRUE

\* ShutdownStrategy.ShouldExecute(true)
ShouldExecuteOnExit(w) == w.cfg.shutdown # "Terminate"

\* entryErr keeps the error the entry template returned
entryReturned(w) == [w EXCEPT !.entryErr = w.err]

\* operate from the entry template to the end
executeEntry(w) ==
    LET \* the exit handler has run: node is the entry node
        onExitDone(w2, node) ==
            IF w2.panic \/ w2.err # "" \/ w2.res = "" \/ ~Fulfilled(w2.wf.nodes[w2.res].phase)
              THEN w2
              ELSE derivePhase(w2, node, w2.wf.nodes[w2.res])
        \* exit keeps what the handler's run saw and left: the entry node's phase, the onExit node's
        recorded(w2, node) ==
            onExitDone([w2 EXCEPT !.exit = [ran |-> TRUE, entry |-> node.phase,
                                            node |-> IF HasNode(w2, OnExitName)
                                                       THEN w2.wf.nodes[OnExitName].phase ELSE ""]],
                       node)
        \* the entry template has run
        entryDone(w1) ==
            IF w1.panic THEN w1
            ELSE IF w1.err # ""
              THEN IF w1.err \notin {"ErrDeadlineExceeded", "ErrParallelismReached"}
                        /\ ~IsTransientErr(w1.err) /\ ~WfFulfilled(w1.wf.phase)
                     THEN markWorkflowError(w1, "error in entry template execution: " \o w1.err)
                     ELSE w1
            ELSE IF w1.res = "" \/ ~Fulfilled(w1.wf.nodes[w1.res].phase) THEN w1
            ELSE IF w.cfg.onExit /\ ShouldExecuteOnExit(w)
              THEN recorded(executeTemplate([w1 EXCEPT !.onExitRan = TRUE], OnExitName,
                                            NewTmpl(FALSE, FALSE)),
                            w1.wf.nodes[w1.res])
            ELSE derivePhase(w1, w1.wf.nodes[w1.res], NoNode)
    \* execPhase keeps the workflow phase at the moment the entrypoint is executed
    IN entryDone(entryReturned(executeTemplate([w EXCEPT !.execPhase = w.wf.phase], Entry,
                                 [NewTmpl(w.cfg.retry, w.cfg.sync) EXCEPT !.memoize = w.cfg.memoize,
                                                                         !.suspend = w.cfg.suspendTmpl])))

ShouldSuspend(w) == w.cfg.suspend

\* createPVCs: "" or the error of the API; a workflow without volume claim templates creates none
createPVCs(w) ==
    IF w.cfg.pvc /\ w.env.fault = "pvcTransient" THEN "transient"
    ELSE IF w.cfg.pvc /\ w.env.fault = "pvcFatal" THEN "forbidden"
    ELSE ""

\* a lock step that is denied and lets operate go on
acquireWorkflowLockGoOn(w) ==
    [AddCall(w, Call("TryAcquire", "", FALSE)) EXCEPT !.wf.message = "Waiting for lock", !.cont = TRUE]

\* the workflow-level synchronization lock: the holder is the workflow, the node id "";
\* cont is FALSE when operate returns here
acquireWorkflowLock(w) ==
    IF ~w.cfg.wfSync THEN [w EXCEPT !.cont = TRUE]
    ELSE LET afterTryAcquire(w1, acquired, wfUpdate) ==
                 IF ~acquired
                   THEN [w1 EXCEPT !.updated = wfUpdate, !.cleared = w1.updated /\ ~wfUpdate,
                                   !.wf.message = "Waiting for lock", !.cont = FALSE]
                   ELSE [w1 EXCEPT !.updated = wfUpdate, !.cleared = w1.updated /\ ~wfUpdate,
                                   !.cont = TRUE]
         IN afterTryAcquire(TryAcquire(w, ""), CanAcquire(w, ""),
                            CanAcquire(w, "") /\ "" \notin w.held)

\* operate after the pod reconciliation
failAfterReconciliation(w) ==
    stopSnapshot(w, failSuspendedAndPendingNodesAfterDeadlineOrShutdown(w))

\* the body of operate, the deferred functions excluded
operateBody(w) ==
    LET unknown == w.wf.phase = "Unknown"
        \* the steps of the function, last first
        \* pvcs keeps what createPVCs returned
        volumes(w3) ==
            IF w3.pvcs = ""
              THEN executeEntry(IF w3.wf.phase = "Pending" THEN markWorkflowRunning(w3) ELSE w3)
            ELSE IF IsTransientErr(w3.pvcs)
              THEN [markWorkflowPhase(w3, "Pending", "Waiting for a PVC to be created")
                      EXCEPT !.requeue = TRUE]
            ELSE markWorkflowError(w3, "pvc create error")
        counted(w2) == volumes([w2 EXCEPT !.pvcs = createPVCs(w)])
        reconciled(w1) ==
            IF w1.panic THEN w1
            ELSE IF unknown /\ createPDBResource(w) # ""
              THEN markWorkflowFailed(w1, "Unable to create PDB resource for workflow")
            ELSE IF ShouldSuspend(w) THEN w1
            ELSE counted(IF w.cfg.parallelism >= 0
                           THEN [w1 EXCEPT !.activePods = getActivePods(w1)] ELSE w1)
        locked(w0) ==
            reconciled(IF unknown THEN markWorkflowRunning(w0)
                       ELSE failAfterReconciliation(podReconciliation(w0)))
        resolved(w0) == IF w0.cont THEN locked(w0) ELSE w0
    IN resolved(acquireWorkflowLock(IF ~w.wf.artifactRef
                                      THEN [w EXCEPT !.wf.artifactRef = TRUE, !.updated = TRUE]
                                      ELSE w))

\* the deferred recover
recoverPanic(w) ==
    IF ~w.panic \/ w.escaped THEN w
    ELSE LET marked(w1) == IF w1.panic THEN [w1 EXCEPT !.escaped = TRUE]
                           ELSE AddCall(w1, Call("OperationPanic", "", ""))
         IN marked(markWorkflowError([w EXCEPT !.panic = FALSE, !.panicked = TRUE], "panic"))

(***************************************************************************)
(* persistUpdates and reapplyUpdate.  A JSON merge patch is kept as the    *)
(* changed status fields and, per node, the changed node fields.           *)
(***************************************************************************)
StatusFields == {"phase", "message", "startedAt", "finishedAt", "completed", "artifactRef"}

ZeroNode == NewNode("", "", "", 0)

\* jsonpatch.CreateMergePatch(oldData, newData)
CreateMergePatch(old, new) ==
    [status |-> [f \in {g \in StatusFields : old[g] # new[g]} |-> new[f]],
     nodes |-> [n \in {m \in DOMAIN new.nodes :
                          m \notin DOMAIN old.nodes \/ old.nodes[m] # new.nodes[m]} |->
                   IF n \notin DOMAIN old.nodes THEN new.nodes[n]
                   ELSE [f \in {g \in DOMAIN new.nodes[n] : old.nodes[n][g] # new.nodes[n][g]} |->
                            new.nodes[n][f]]]]

MergeFields(base, patch) ==
    [f \in DOMAIN base \cup DOMAIN patch |-> IF f \in DOMAIN patch THEN patch[f] ELSE base[f]]

\* jsonpatch.MergePatch(currWfBytes, patchBytes)
MergePatch(curr, patch) ==
    [MergeFields(curr, patch.status) EXCEPT
        !.nodes = [n \in DOMAIN curr.nodes \cup DOMAIN patch.nodes |->
                      IF n \notin DOMAIN patch.nodes THEN curr.nodes[n]
                      ELSE MergeFields(IF n \in DOMAIN curr.nodes THEN curr.nodes[n] ELSE ZeroNode,
                                       patch.nodes[n])]]

\* a check that looks at the workflow phase only
reapplyCheckPhaseOnly(currWf, nodes) ==
    IF WfFulfilled(currWf.phase) THEN "must never update completed workflows" ELSE ""

\* the two checks reapplyUpdate makes on the fetched workflow: "" or the error
reapplyCheck(currWf, nodes) ==
    IF WfFulfilled(currWf.phase) THEN "must never update completed workflows"
    ELSE IF \E id \in DOMAIN nodes :
              /\ id \in DOMAIN currWf.nodes
              /\ Fulfilled(currWf.nodes[id].phase)
              /\ nodes[id].phase # currWf.nodes[id].phase
      THEN "must never update completed node"
    ELSE ""

\* wfClient.Update succeeded with newWf: the server stores it under the next resourceVersion
ServerUpdate(w, newWf) ==
    LET stored == [newWf EXCEPT !.rv = w.server.rv + 1]
    IN [w EXCEPT !.server = stored, !.persisted = TRUE,
                 !.updates = Append(w.updates, stored.phase)]

\* reapplyUpdate against a server copy that only moved its resourceVersion on
\* hydrator.Hydrate(woc.orig): loads the offloaded nodes into the object woc.orig points to
HydrateOrig(w) == [w EXCEPT !.origOffloaded = FALSE]

reapplyOnce(w) ==
    LET currWf == [w.server EXCEPT !.rv = @ + 1]
        updatedWf(w2) == [w2 EXCEPT !.wf = [w2.server EXCEPT !.nodes = w.wf.nodes], !.err = ""]
        \* err is what the checks on the fetched workflow say
        fetched(w1, err) ==
            IF err # "" THEN [w1 EXCEPT !.err = err]
            ELSE updatedWf(ServerUpdate(w1, MergePatch(currWf, CreateMergePatch(w.orig, w.wf))))
        checked(err) == fetched(AddCall([HydrateOrig(w) EXCEPT !.server = currWf],
                                        Call("Get", "", err)), err)
    IN checked(reapplyCheck(currWf, w.wf.nodes))

\* the pod GC strategies; "nil" is a spec without podGC, "" a podGC without strategy
PodGCStrategies == {"nil", "", "OnPodSuccess", "OnPodCompletion", "OnWorkflowSuccess",
                    "OnWorkflowCompletion"}

\* what the loop over completedPods queues for one pod: "" is nothing at all
podCleanupAction(strategy, podPhase) ==
    IF strategy = "nil" THEN "labelPodCompleted"
    ELSE IF strategy = "OnPodSuccess" THEN (IF podPhase = "Succeeded" THEN "deletePod" ELSE "")
    ELSE IF strategy = "OnPodCompletion" THEN "deletePod"
    ELSE ""

\* the queueing of the completed pods at the end of persistUpdates
queueCompletedPods(w) ==
    [w EXCEPT !.labelled = w.completedPods,
              !.cleanup = {<<cp[1], podCleanupAction(w.cfg.podGC, cp[2])>> :
                              cp \in {c \in w.completedPods :
                                         podCleanupAction(w.cfg.podGC, c[2]) # ""}}]

\* a size-limit path that goes on to queue the completed pods
persistWorkflowSizeLimitErrQueueing(w) == queueCompletedPods([w EXCEPT !.wf = w.orig])

\* a size-limit path that keeps the working copy
workingCopy(w) == w.wf

\* woc.orig.DeepCopy()
origCopy(w) == w.orig

persistWorkflowSizeLimitErr(w) ==
    LET marked(w2) == IF w2.panic THEN w2 ELSE ServerUpdate(w2, w2.wf)
    IN marked(markWorkflowError([w EXCEPT !.wf = origCopy(w)], "request entity too large"))

\* the way persistUpdates returns: "clean", "updated", "reapplied", "reapplyErr",
\* "updateErr", "tooLarge", "writeBackErr"
Outcome(w, o) == [w EXCEPT !.outcome = o]

\* a check that lets every pair of resource versions pass
sameResourceVersionAlways(w) == TRUE

\* woc.orig.ResourceVersion == woc.wf.ResourceVersion
sameResourceVersion(w) == w.orig.rv = w.wf.rv

persistUpdatesBody(w) ==
    IF ~w.updated THEN Outcome(w, "clean")
    ELSE IF ~sameResourceVersion(w)
      THEN [w EXCEPT !.panic = TRUE]   \* "cannot persist updates with mismatched resource versions"
    ELSE
      LET \* the steps of the function, last first
          writeBack(w3) ==
              IF w.env.fault = "writeBackFail"
                THEN Outcome(markWorkflowError([w3 EXCEPT !.wf = w3.server],
                                               "failed to update informer store"), "writeBackErr")
                ELSE Outcome(queueCompletedPods([w3 EXCEPT !.wf = w3.server]), "updated")
          reapplied(w3) == IF w3.err # "" THEN Outcome(w3, "reapplyErr")
                           ELSE Outcome(queueCompletedPods(w3), "reapplied")
          update(w2) ==
              IF w.env.fault = "tooLarge" THEN Outcome(persistWorkflowSizeLimitErr(w2), "tooLarge")
              ELSE IF w.env.fault = "updateErr" THEN Outcome(w2, "updateErr")
              ELSE IF w.env.fault = "conflict" THEN reapplied(reapplyOnce(w2))
              ELSE writeBack(ServerUpdate(w2, w2.wf))
          dehydrated(w1) ==
              IF w1.panic THEN w1
              ELSE update(IF (w.cfg.sync \/ w.cfg.wfSync) /\ WfFulfilled(w1.wf.phase)
                            THEN [AddCall(w1, Call("ReleaseAll", "", w1.held # {})) EXCEPT !.held = {}]
                            ELSE w1)
      IN dehydrated(IF w.env.fault = "dehydrateFail" THEN markWorkflowError(w, "dehydrate failed") ELSE w)

\* a panic in a deferred function is not recovered
persistUpdates(w) ==
    LET persisted(w1) ==
            IF w1.panic
              THEN [w1 EXCEPT !.escaped = TRUE, !.persistLog = Append(w1.persistLog, "panic")]
              ELSE [w1 EXCEPT !.persistLog = Append(w1.persistLog, w1.outcome)]
    IN persisted(persistUpdatesBody([w EXCEPT !.err = "", !.panic = FALSE]))

\* bodyLog keeps the phases assigned until the body returned or panicked
operate(w) ==
    LET returned(w1) == [w1 EXCEPT !.bodyLog = w1.phaseLog]
    IN persistUpdates(recoverPanic(returned(operateBody(w))))

(***************************************************************************)
(* The controller and its environment: reconciliations of one workflow,    *)
(* its pods, the clock, and the other users of the mutex.                  *)
(***************************************************************************)
TickStep == 11

Faults == {"none", "pdbFail", "dehydrateFail", "tooLarge", "updateErr", "conflict", "writeBackFail",
           "pvcTransient", "pvcFatal"}

PodFaults == {"ok", "transient", "fatal"}

\* the workflow specs: plain, with retries under parallelism 1, with an exit handler,
\* with a mutex, with a mutex and retries, a daemon with an exit handler, and a plain
\* one whose pod GC label selector does not parse
Configs ==
    {NewSpec(FALSE, FALSE, -1, FALSE, FALSE), NewSpec(TRUE, FALSE, 1, FALSE, FALSE),
     NewSpec(FALSE, TRUE, -1, FALSE, FALSE), NewSpec(FALSE, FALSE, 1, TRUE, FALSE),
     NewSpec(TRUE, FALSE, -1, TRUE, FALSE), NewSpec(FALSE, TRUE, -1, FALSE, TRUE),
     [NewSpec(FALSE, FALSE, -1, FALSE, FALSE) EXCEPT !.podGCSelector = "bad", !.podGC = ""]}

\* what one reconciliation did, kept for inspection
Summary(w, start) ==
    [calls |-> w.calls, phaseLog |-> <<start.phase>> \o w.phaseLog, escaped |-> w.escaped,
     requeue |-> w.requeue, persisted |-> w.persisted, completedPods |-> w.labelled,
     updated |-> w.updated, activePods |-> w.activePods, derive |-> w.derive,
     activeNodes |-> getActivePods(w), panicked |-> w.panicked, err |-> w.err,
     persistLog |-> w.persistLog, cleared |-> w.cleared, exit |-> w.exit,
     message |-> w.wf.message, nodesChanged |-> w.wf.nodes # w.orig.nodes,
     bodyLog |-> <<start.phase>> \o w.bodyLog, execPhase |-> w.execPhase, pvcs |-> w.pvcs,
     spawned |-> w.spawned, cont |-> w.cont, outcome |-> w.outcome, updates |-> w.updates,
     cleanup |-> w.cleanup, deadline |-> w.deadline, loaded |-> w.env.entry,
     stopLog |-> w.stopLog, entryErr |-> w.entryErr]

Init ==
    /\ wf = NewWorkflow
    /\ pods = <<>>
    /\ now = 1
    /\ held = {} /\ lockBusy = FALSE
    /\ last = NoLast
    /\ cfg \in Configs
    /\ ops = 0
    /\ srv = NewWorkflow /\ woc = <<>> /\ gpc = <<>> /\ seenPods = {}

\* one reconciliation of the workflow; a workflow labelled completed is not reconciled again
Operate ==
    /\ ops < MaxOps
    /\ ~wf.completed
    /\ \E fault \in Faults, pod \in PodFaults :
          /\ fault = "none" \/ pod = "ok"
          /\ LET operated(w) ==
                     /\ wf' = w.server
                     /\ pods' = w.pods
                     /\ held' = w.held
                     /\ last' = Summary(w, wf)
             IN operated(operate(newWorkflowOperationCtx(wf, pods, held, lockBusy, cfg, now,
                                                         [NoEnv EXCEPT !.fault = fault, !.pod = pod])))
    /\ ops' = ops + 1
    /\ UNCHANGED <<now, lockBusy, cfg, srv, woc, gpc, seenPods>>

\* the kubelet moves a pod on
PodProgress ==
    /\ \E p \in DOMAIN pods :
          \E next \in (CASE pods[p].phase = "Pending" -> {PodRunning(pods[p].daemon, FALSE)}
                         [] pods[p].phase = "Running" ->
                              {PodSucceeded("ok"), PodFailed("main", 1, pods[p].daemon)}
                                \cup (IF pods[p].daemon THEN {PodRunning(TRUE, TRUE)} ELSE {})
                         [] OTHER -> {}) :
             /\ next # pods[p]
             /\ pods' = [pods EXCEPT ![p] = [next EXCEPT !.seen = pods[p].seen]]
    /\ UNCHANGED <<wf, now, held, lockBusy, last, cfg, ops, srv, woc, gpc, seenPods>>

\* the pod informer catches up with a pod
InformerSync ==
    /\ \E p \in DOMAIN pods :
          /\ ~pods[p].seen
          /\ pods' = [pods EXCEPT ![p].seen = TRUE]
    /\ UNCHANGED <<wf, now, held, lockBusy, last, cfg, ops, srv, woc, gpc, seenPods>>

Tick ==
    /\ now + TickStep <= MaxTime
    /\ now' = now + TickStep
    /\ UNCHANGED <<wf, pods, held, lockBusy, last, cfg, ops, srv, woc, gpc, seenPods>>

\* another workflow takes or gives back the mutex
OtherWorkflowLock ==
    /\ (cfg.sync \/ cfg.wfSync) /\ held = {}
    /\ lockBusy' = ~lockBusy
    /\ UNCHANGED <<wf, pods, now, held, last, cfg, ops, srv, woc, gpc, seenPods>>

Next == Operate \/ PodProgress \/ InformerSync \/ Tick \/ OtherWorkflowLock

Spec == Init /\ [][Next]_vars

(***************************************************************************)
(* Properties of the reconciliations                                       *)
(***************************************************************************)
\* C1: monotone completion: across reconciliations a node whose phase is terminal
\* keeps that phase.
C1_MonotoneCompletion ==
    [][\A n \in DOMAIN wf.nodes :
          Fulfilled(wf.nodes[n].phase) =>
              n \in DOMAIN wf'.nodes /\ wf'.nodes[n].phase = wf.nodes[n].phase]_vars

\* the workflow phase the claim derives from the entry node and the onExit node
ExpectedPhase(entry, onExit) ==
    IF entry \in {"Succeeded", "Skipped", "Omitted"}
      THEN IF onExit \in {"Failed", "Error"} THEN onExit ELSE "Succeeded"
      ELSE entry

\* the phase the derivation step marked the workflow with
MarkedPhase == IF last.derive.set # <<>> THEN last.derive.set[1] ELSE last.derive.phase

\* C2: with the entry node terminal (and the onExit node, if it ran, terminal) the
\* workflow phase is derived from the entry node's phase, Succeeded, Skipped and
\* Omitted giving Succeeded, except that a Failed or Error onExit node decides when
\* the entry node succeeded.
C2_PhaseDerivation ==
    last.derive.ran /\ ~last.derive.panic =>
        MarkedPhase = ExpectedPhase(last.derive.entry, last.derive.onExit)

C2_Witness ==
    /\ last.derive.ran /\ ~last.derive.panic
    /\ last.derive.entry = "Succeeded" /\ last.derive.onExit = "Failed"
    /\ wf.phase = "Failed"

C4_TerminalPhaseFinal ==
    \A i, j \in DOMAIN last.phaseLog :
        i < j /\ WfFulfilled(last.phaseLog[i]) => last.phaseLog[j] = last.phaseLog[i]

\* C5: at the end of every reconciliation the number of Pending or Running pod
\* nodes is at most spec.parallelism when it is set.
C5_ParallelismRespected ==
    cfg.parallelism >= 0 => last.activeNodes <= cfg.parallelism

\* C6: lock conservation: every Release is issued for a node that holds the lock,
\* so never twice for one acquisition and never for a node that did not acquire.
C6_LockConservation ==
    \A i \in DOMAIN last.calls :
        last.calls[i].op = "Release" => last.calls[i].arg = TRUE

\* C11: a panic in the body of operate is recovered inside operate, also when the
\* workflow phase was already terminal at that moment: the workflow is marked Error,
\* the OperationPanic metric is emitted, the panic does not leave operate, and
\* persistUpdates runs.
C11_PanicContained ==
    last.panicked =>
        /\ Len(last.persistLog) = 1
        /\ ~last.escaped
        /\ \E i \in DOMAIN last.calls : last.calls[i].op = "OperationPanic"
        /\ last.phaseLog[Len(last.phaseLog)] = "Error"

(***************************************************************************)
(* SpecReapply: reapplyUpdate step by step, the attempts of its loop        *)
(* interleaved with other writers of the workflow.  wf is the local        *)
(* workflow, srv the server's copy, woc the position in the loop.          *)
(***************************************************************************)
MaxServerVersion == 4

ReapplyNodeNames == {"a", "b"}

ReapplyWorkflow(phase, phases, rv) ==
    [NewWorkflow EXCEPT !.phase = phase, !.rv = rv, !.startedAt = 1,
                        !.nodes = [n \in ReapplyNodeNames |-> NewNode("Pod", phases[n], "", 1)]]

InitReapply ==
    /\ \E po \in [ReapplyNodeNames -> {"Running", "Succeeded"}],
          pl \in [ReapplyNodeNames -> {"Running", "Succeeded", "Failed"}],
          phase \in {"Running", "Failed"} :
          /\ wf = ReapplyWorkflow(phase, pl, 1)
          /\ srv = ReapplyWorkflow("Running", po, 2)
          /\ woc = [orig |-> ReapplyWorkflow("Running", po, 1), pc |-> "get", attempt |-> 1,
                    currWf |-> ReapplyWorkflow("Running", po, 1), err |-> "", sentOn |-> <<>>,
                    gets |-> 0, result |-> NewWorkflow]
    /\ pods = <<>> /\ now = 1 /\ held = {} /\ lockBusy = FALSE /\ last = NoLast
    /\ cfg = NewSpec(FALSE, FALSE, -1, FALSE, FALSE) /\ ops = 0 /\ gpc = <<>> /\ seenPods = {}

\* a loop that gives up one attempt later
attemptsExhaustedLate(attempt) == attempt > MaxReapplyAttempts + 1

\* "if attempt > 5" at the end of the loop of reapplyUpdate
attemptsExhausted(attempt) == attempt > MaxReapplyAttempts

\* hydrator.HydrateWithNodes(wf, nodes): the object with the nodes put in
HydrateWithNodes(w0, nodes) == [w0 EXCEPT !.nodes = nodes]

\* wfClient.Get and the two checks on what it returned
ReapplyFetch ==
    /\ woc.pc = "get"
    /\ woc' = IF reapplyCheck(srv, wf.nodes) # ""
                THEN [woc EXCEPT !.currWf = srv, !.gets = @ + 1, !.pc = "failed",
                                 !.err = reapplyCheck(srv, wf.nodes)]
                ELSE [woc EXCEPT !.currWf = srv, !.gets = @ + 1, !.pc = "update"]
    /\ UNCHANGED <<wf, srv, pods, now, held, lockBusy, last, cfg, ops, gpc, seenPods>>

\* wfClient.Update of the patched workflow: the server takes it when nobody wrote since the Get
ReapplySend ==
    /\ woc.pc = "update"
    /\ \E apiOk \in BOOLEAN :
          LET newWf == MergePatch(woc.currWf, CreateMergePatch(woc.orig, wf))
              sent == [woc EXCEPT !.sentOn = Append(woc.sentOn, woc.currWf)]
          IN IF apiOk /\ woc.currWf.rv = srv.rv
               THEN /\ srv' = [newWf EXCEPT !.rv = srv.rv + 1]
                    /\ woc' = [sent EXCEPT !.pc = "done", !.result = HydrateWithNodes(srv', wf.nodes)]
               ELSE /\ srv' = srv
                    /\ woc' = IF attemptsExhausted(woc.attempt + 1)
                                THEN [sent EXCEPT !.attempt = woc.attempt + 1, !.pc = "failed",
                                                  !.err = "update failed"]
                                ELSE [sent EXCEPT !.attempt = woc.attempt + 1, !.pc = "get"]
    /\ UNCHANGED <<wf, pods, now, held, lockBusy, last, cfg, ops, gpc, seenPods>>

\* another writer completes a node of the server's copy, or the workflow itself
OtherWriter ==
    /\ srv.rv < MaxServerVersion
    /\ \/ \E n \in ReapplyNodeNames, ph \in {"Succeeded", "Failed"} :
             /\ ~Fulfilled(srv.nodes[n].phase)
             /\ srv' = [srv EXCEPT !.nodes[n].phase = ph, !.rv = srv.rv + 1]
       \/ /\ ~WfFulfilled(srv.phase)
          /\ srv' = [srv EXCEPT !.phase = "Succeeded", !.rv = srv.rv + 1]
       \/ srv' = [srv EXCEPT !.rv = srv.rv + 1]
    /\ UNCHANGED <<wf, woc, pods, now, held, lockBusy, last, cfg, ops, gpc, seenPods>>

NextReapply == ReapplyFetch \/ ReapplySend \/ OtherWriter

SpecReapply == InitReapply /\ [][NextReapply]_vars

\* the local workflow disagrees with currWf on the phase of a node that is terminal in currWf
RegressesTerminalNode(currWf) ==
    \E id \in DOMAIN wf.nodes :
        /\ id \in DOMAIN currWf.nodes
        /\ currWf.nodes[id].phase \in {"Succeeded", "Failed", "Error", "Skipped", "Omitted"}
        /\ wf.nodes[id].phase # currWf.nodes[id].phase

\* C7: reapplyUpdate calls Update only on a fetched workflow that is not fulfilled and
\* has no terminal node whose phase the local workflow would change; when a fetched
\* workflow fails one of the two checks the attempt ends in an error without an Update.
C7_ReapplySafety ==
    /\ \A i \in DOMAIN woc.sentOn :
          /\ woc.sentOn[i].phase \notin {"Succeeded", "Failed", "Error"}
          /\ ~RegressesTerminalNode(woc.sentOn[i])
    /\ (woc.pc # "get" /\ (woc.currWf.phase \in {"Succeeded", "Failed", "Error"}
                             \/ RegressesTerminalNode(woc.currWf))) =>
          /\ woc.pc = "failed" /\ woc.err # "" /\ woc.err # "update failed"
          /\ Len(woc.sentOn) = woc.attempt - 1

C7_Witness ==
    /\ woc.pc = "failed" /\ woc.err = "must never update completed node"
    /\ Len(woc.sentOn) = 1 /\ woc.attempt = 2

(***************************************************************************)
(* SpecRetry: one retry node with a backoff; its children fail one after   *)
(* the other while the clock runs and executeTemplate visits the node.     *)
(***************************************************************************)
MaxRetryChildren == 3

MaxRetryTime == 75

RetryStep == 10

RetryConfigs ==
    {[NewSpec(TRUE, FALSE, -1, FALSE, FALSE) EXCEPT
         !.backoff = TRUE, !.duration = d, !.factor = f, !.maxDuration = m, !.limit = MaxRetryChildren] :
        d \in {10, 20}, f \in {-1, 0, 1, 2, 3}, m \in {0, 30}}
      \cup {[NewSpec(TRUE, FALSE, -1, FALSE, FALSE) EXCEPT !.policy = p, !.limit = MaxRetryChildren] :
               p \in KnownRetryPolicies \cup {"Sometimes"}}

FailedChild(t) ==
    [NewNode("Pod", "Failed", "Error (exit code 1)", t) EXCEPT !.finishedAt = t]

\* the ways a child ends: with a backoff by the exit code of its main container, without
\* one also with an error and with a message that is classified as transient
ChildEndings(c) ==
    IF c.backoff THEN {[phase |-> "Failed", message |-> "Error (exit code 1)"]}
    ELSE [phase : {"Failed", "Error"}, message : {"Error (exit code 1)", "transient"}]

InitRetry ==
    /\ cfg \in RetryConfigs
    /\ \E e \in ChildEndings(cfg) :
          wf = [NewWorkflow EXCEPT
                  !.phase = "Running", !.startedAt = 1,
                  !.nodes = (Entry :> [NewNode("Retry", "Running", "", 1) EXCEPT
                                          !.children = <<ChildName(Entry, 0)>>])
                            @@ (ChildName(Entry, 0) :>
                                  [FailedChild(1) EXCEPT !.phase = e.phase, !.message = e.message])]
    /\ pods = <<>> /\ now = 1 /\ held = {} /\ lockBusy = FALSE /\ last = NoLast
    /\ ops = 0 /\ srv = NewWorkflow /\ woc = <<>> /\ gpc = <<>> /\ seenPods = {}

\* executeTemplate visits the retry node
RetryVisit ==
    /\ ~Fulfilled(wf.nodes[Entry].phase)
    /\ LET visited(w) ==
               /\ wf' = w.wf
               /\ pods' = w.pods
               /\ last' = [NoLast EXCEPT !.calls = w.calls, !.requeue = w.requeue, !.updated = w.updated,
                                         !.spawned = w.spawned, !.cont = w.cont, !.err = w.err]
       IN visited(executeTemplate(newWorkflowOperationCtx(wf, pods, held, lockBusy, cfg, now, NoEnv),
                                  Entry, NewTmpl(TRUE, FALSE)))
    /\ UNCHANGED <<now, held, lockBusy, cfg, ops, srv, woc, gpc, seenPods>>

\* the pod of the last child fails and the child is marked Failed
ChildFails ==
    /\ LET parent == wf.nodes[Entry]
           child == parent.children[Len(parent.children)]
       IN /\ ~Fulfilled(parent.phase) /\ ~Fulfilled(wf.nodes[child].phase)
          /\ \E e \in ChildEndings(cfg) :
                wf' = [wf EXCEPT !.nodes[child] = [@ EXCEPT !.phase = e.phase, !.finishedAt = now,
                                                           !.message = e.message]]
    /\ last' = NoLast
    /\ UNCHANGED <<pods, now, held, lockBusy, cfg, ops, srv, woc, gpc, seenPods>>

\* the clock runs; without a backoff processNodeRetries does not read it
RetryTick ==
    /\ cfg.backoff
    /\ now + RetryStep <= MaxRetryTime
    /\ now' = now + RetryStep
    /\ last' = NoLast
    /\ UNCHANGED <<wf, pods, held, lockBusy, cfg, ops, srv, woc, gpc, seenPods>>

NextRetry == RetryVisit \/ ChildFails \/ RetryTick

SpecRetry == InitRetry /\ [][NextRetry]_vars

\* d * f^(K-1), and d when the factor is 0 or unset
ExpectedWait(d, f, K) == IF f <= 0 THEN d ELSE d * Pow(f, K - 1)

\* the wait the last visit asked the workflow to be requeued after, -1 when it asked for none
RequeuedAfter ==
    IF \E i \in DOMAIN last.calls : last.calls[i].op = "requeueAfter"
      THEN last.calls[CHOOSE i \in DOMAIN last.calls : last.calls[i].op = "requeueAfter"].arg
      ELSE -1

\* the last visit created the pod of a new child
CreatedChild == \E i \in DOMAIN last.calls : last.calls[i].op = "CreatePod"

\* C9: retry arithmetic: with backoff duration d and factor f the wait after the K-th
\* child has failed (K the number of children) is d * f^(K-1), and d when f is 0 or
\* unset: a visit before the wait is over requeues after exactly that wait, a new child
\* is created only once that wait has passed since the last child finished; with
\* d = 10 and f = 2 the waits after children 1, 2, 3 are 10, 20, 40.
C9_RetryArithmetic ==
    LET children == wf.nodes[Entry].children
        K == Len(children)
    IN /\ RequeuedAfter # -1 =>
             /\ RequeuedAfter = ExpectedWait(cfg.duration, cfg.factor, K)
             /\ (cfg.duration = 10 /\ cfg.factor = 2 /\ K <= 3) => RequeuedAfter = <<10, 20, 40>>[K]
             /\ now < wf.nodes[children[K]].finishedAt + RequeuedAfter
       /\ CreatedChild =>
             now >= wf.nodes[children[K - 1]].finishedAt
                      + ExpectedWait(cfg.duration, cfg.factor, K - 1)

C9_Witness ==
    /\ cfg.duration = 10 /\ cfg.factor = 2
    /\ Len(wf.nodes[Entry].children) = 3
    /\ RequeuedAfter = 40

(***************************************************************************)
(* SpecPodRecon: podReconciliation with its goroutines.  Every observed    *)
(* pod has a goroutine (gpc is its position) that records the pod in       *)
(* seenPods under seenPodLock and then assesses it under wfNodesLock; the  *)
(* main goroutine waits for all of them and then walks the nodes in the    *)
(* order of the map iteration.  wf stays the workflow as it was before,    *)
(* woc.ctx is the operation context being worked on.                       *)
(***************************************************************************)
ReconNodeNames == {ChildName(Entry, 0), ChildName(Entry, 1)}

ReconNodes ==
    {NewNode("Pod", "Pending", "", 1), NewNode("Pod", "Running", "", 1),
     [NewNode("Pod", "Running", "", 1) EXCEPT !.daemoned = TRUE],
     [NewNode("Pod", "Pending", "Waiting for lock", 1) EXCEPT !.waiting = "lock"],
     NewNode("Pod", "Pending", "", 0), NewNode("Pod", "Failed", "Error (exit code 1)", 1),
     NewNode("Retry", "Running", "", 1)}

ReconPods == {PodRunning(FALSE, FALSE), PodSucceeded("ok")}

\* the times of the reconciliation: the nodes started at 1
ReconTimes == {3, 11, 12, 16}

InitPodRecon ==
    /\ \E ns \in [ReconNodeNames -> ReconNodes], observed \in SUBSET ReconNodeNames,
          ps \in [ReconNodeNames -> ReconPods] :
          /\ wf = [NewWorkflow EXCEPT !.phase = "Running", !.startedAt = 1, !.nodes = ns]
          /\ pods = [p \in observed |-> ps[p]]
    /\ now \in ReconTimes
    /\ held = {} /\ lockBusy = FALSE /\ last = NoLast
    /\ cfg = NewSpec(FALSE, FALSE, -1, FALSE, FALSE) /\ ops = 0 /\ srv = NewWorkflow
    /\ woc = [pc |-> "wait", remaining |-> {},
              ctx |-> newWorkflowOperationCtx(wf, pods, held, lockBusy, cfg, now, NoEnv)]
    /\ gpc = [p \in DOMAIN pods |-> "start"]
    /\ seenPods = {}

\* a goroutine records its pod in seenPods
RecordSeen ==
    /\ \E p \in DOMAIN gpc :
          /\ gpc[p] = "start"
          /\ seenPods' = seenPods \cup {p}
          /\ gpc' = [gpc EXCEPT ![p] = "recorded"]
    /\ UNCHANGED <<wf, pods, now, held, lockBusy, last, cfg, ops, srv, woc>>

\* a goroutine assesses its pod under wfNodesLock and ends
AssessPod ==
    /\ \E p \in DOMAIN gpc :
          /\ gpc[p] = "recorded"
          /\ woc' = [woc EXCEPT !.ctx = performAssessment(woc.ctx, p)]
          /\ gpc' = [gpc EXCEPT ![p] = "done"]
    /\ UNCHANGED <<wf, pods, now, held, lockBusy, last, cfg, ops, srv, seenPods>>

\* wg.Wait() returns: the walk over the nodes begins
WaitDone ==
    /\ woc.pc = "wait"
    /\ \A p \in DOMAIN gpc : gpc[p] = "done"
    /\ woc' = [woc EXCEPT !.pc = "loop", !.remaining = DOMAIN woc.ctx.wf.nodes]
    /\ UNCHANGED <<wf, pods, now, held, lockBusy, last, cfg, ops, srv, gpc, seenPods>>

\* one iteration of the loop over the nodes
CheckNode ==
    /\ woc.pc = "loop"
    /\ \E n \in woc.remaining :
          woc' = [woc EXCEPT !.ctx = checkDeletedPod(woc.ctx, n, seenPods),
                             !.remaining = woc.remaining \ {n}]
    /\ UNCHANGED <<wf, pods, now, held, lockBusy, last, cfg, ops, srv, gpc, seenPods>>

ReconReturn ==
    /\ woc.pc = "loop" /\ woc.remaining = {}
    /\ woc' = [woc EXCEPT !.pc = "done"]
    /\ last' = [NoLast EXCEPT !.requeue = woc.ctx.requeue, !.updated = woc.ctx.updated,
                              !.calls = woc.ctx.calls]
    /\ UNCHANGED <<wf, pods, now, held, lockBusy, cfg, ops, srv, gpc, seenPods>>

NextPodRecon == RecordSeen \/ AssessPod \/ WaitDone \/ CheckNode \/ ReconReturn

SpecPodRecon == InitPodRecon /\ [][NextPodRecon]_vars

\* the node was given Error "pod deleted" by this reconciliation
MarkedPodDeleted(n) ==
    /\ woc.ctx.wf.nodes[n].phase = "Error"
    /\ woc.ctx.wf.nodes[n].message = "pod deleted"

\* the node is a started, unfinished pod node without an observed pod that does not
\* wait for a lock
MissingPod(n) ==
    /\ wf.nodes[n].type = "Pod"
    /\ wf.nodes[n].phase \notin {"Succeeded", "Failed", "Error", "Skipped", "Omitted"}
    /\ wf.nodes[n].startedAt # 0
    /\ n \notin DOMAIN pods
    /\ ~(wf.nodes[n].phase = "Pending" /\ wf.nodes[n].waiting # "")

\* C10: pod deletion grace: when podReconciliation returns, a node is Error "pod
\* deleted" exactly if it is a started, unfinished pod node with no observed pod, not
\* waiting for a lock, that started more than 10 s ago; within the 10 s the workflow is
\* requeued and the node is as it was; and at no point of any interleaving is a node
\* with an observed pod marked "pod deleted".
C10_PodDeletionGrace ==
    /\ \A n \in DOMAIN pods : n \in DOMAIN wf.nodes => ~MarkedPodDeleted(n)
    /\ woc.pc = "done" =>
          \A n \in DOMAIN wf.nodes :
             /\ MarkedPodDeleted(n) <=> (MissingPod(n) /\ now - wf.nodes[n].startedAt > 10)
             /\ (MissingPod(n) /\ now - wf.nodes[n].startedAt <= 10) =>
                   woc.ctx.requeue /\ woc.ctx.wf.nodes[n] = wf.nodes[n]

C10_Witness ==
    /\ woc.pc = "done"
    /\ MarkedPodDeleted(ChildName(Entry, 0))
    /\ ChildName(Entry, 1) \in DOMAIN pods /\ gpc[ChildName(Entry, 1)] = "done"
    /\ woc.ctx.wf.nodes[ChildName(Entry, 1)] # wf.nodes[ChildName(Entry, 1)]

(***************************************************************************)
(* SpecPersist: the reconciliations of Spec, with the operation context    *)
(* kept in woc after operate() has returned, and persistUpdates called on  *)
(* it once more.                                                           *)
(***************************************************************************)
MaxPersistOps == 2

\* the workflow specs: plain, with an exit handler, and plain with node status offloading
PersistConfigs ==
    {NewSpec(FALSE, FALSE, -1, FALSE, FALSE), NewSpec(FALSE, TRUE, -1, FALSE, FALSE),
     [NewSpec(FALSE, FALSE, -1, FALSE, FALSE) EXCEPT !.offload = TRUE]}

InitPersist ==
    /\ wf = NewWorkflow
    /\ pods = <<>>
    /\ now = 1
    /\ held = {} /\ lockBusy = FALSE
    /\ last = NoLast
    /\ cfg \in PersistConfigs
    /\ ops = 0
    /\ woc = newWorkflowOperationCtx(NewWorkflow, <<>>, {}, FALSE, cfg, 1, NoEnv)
    /\ srv = NewWorkflow /\ gpc = <<>> /\ seenPods = {}

\* one reconciliation; its context stays in woc
OperateOnce ==
    /\ ops < MaxPersistOps
    /\ ~wf.completed
    /\ \E fault \in Faults, pod \in PodFaults :
          /\ fault = "none" \/ pod = "ok"
          /\ LET operated(w) ==
                     /\ wf' = w.server
                     /\ pods' = w.pods
                     /\ held' = w.held
                     /\ last' = Summary(w, wf)
                     /\ woc' = w
             IN operated(operate(newWorkflowOperationCtx(wf, pods, held, lockBusy, cfg, now,
                                                         [NoEnv EXCEPT !.fault = fault, !.pod = pod])))
    /\ ops' = ops + 1
    /\ UNCHANGED <<now, lockBusy, cfg, srv, gpc, seenPods>>

\* persistUpdates is called a second time on the context of the last reconciliation
PersistAgain ==
    /\ Len(woc.persistLog) = 1 /\ ~woc.escaped
    /\ \E fault \in Faults :
          LET persisted(w) ==
                  /\ wf' = w.server
                  /\ held' = w.held
                  /\ woc' = w
          IN persisted(persistUpdates([woc EXCEPT !.env.fault = fault]))
    /\ UNCHANGED <<pods, now, lockBusy, last, cfg, ops, srv, gpc, seenPods>>

NextPersist == OperateOnce \/ PersistAgain \/ PodProgress \/ InformerSync \/ Tick

SpecPersist == InitPersist /\ [][NextPersist]_vars

\* the first call of persistUpdates stored the workflow: its Update or its re-apply succeeded
FirstUpdateSucceeded == woc.persistLog[1] \in {"updated", "reapplied", "writeBackErr"}

\* C12: a second call of persistUpdates on a context whose first call updated the
\* workflow issues no second Update: the dirty flag is still set, the resource
\* versions of woc.orig and woc.wf differ, and the call panics before the API call.
C12_NoSecondUpdate ==
    Len(woc.persistLog) = 2 /\ FirstUpdateSucceeded =>
        /\ woc.updated
        /\ woc.persistLog[2] = "panic"
        /\ Len(woc.updates) = 1

C12_Witness ==
    /\ Len(woc.persistLog) = 2 /\ woc.persistLog[1] = "reapplied"
    /\ woc.persistLog[2] = "panic" /\ woc.env.fault = "none"
    /\ Len(woc.updates) = 1

\* C13: woc.orig, the object of the informer store, is never mutated: operate,
\* persistUpdates, reapplyUpdate and persistWorkflowSizeLimitErr change the deep
\* copy only, so the object is still as the store gave it, offloaded nodes included.
C13_OrigNeverMutated ==
    woc.origOffloaded = Offloaded(woc.cfg, woc.orig)

(***************************************************************************)
(* SpecControl: the reconciliations of Spec for workflows under control:   *)
(* with an exit handler (running on, stopped, terminated), suspended,      *)
(* behind a workflow-level mutex, and with volume claim templates.         *)
(***************************************************************************)
ControlConfigs ==
    {NewSpec(FALSE, TRUE, -1, FALSE, FALSE),
     [NewSpec(FALSE, TRUE, -1, FALSE, FALSE) EXCEPT !.shutdown = "Stop"],
     [NewSpec(FALSE, TRUE, -1, FALSE, FALSE) EXCEPT !.shutdown = "Terminate"],
     [NewSpec(FALSE, FALSE, -1, FALSE, FALSE) EXCEPT !.suspend = TRUE],
     [NewSpec(FALSE, FALSE, -1, FALSE, FALSE) EXCEPT !.wfSync = TRUE],
     [NewSpec(FALSE, FALSE, -1, FALSE, FALSE) EXCEPT !.pvc = TRUE]}

InitControl ==
    /\ wf = NewWorkflow
    /\ pods = <<>>
    /\ now = 1
    /\ held = {} /\ lockBusy = FALSE
    /\ last = NoLast
    /\ cfg \in ControlConfigs
    /\ ops = 0
    /\ srv = NewWorkflow /\ woc = <<>> /\ gpc = <<>> /\ seenPods = {}

SpecControl == InitControl /\ [][Next]_vars

\* the body of operate assigned a terminal workflow phase in the last reconciliation
SetTerminalPhase == \E i \in 2..Len(last.bodyLog) : WfFulfilled(last.bodyLog[i])

C15_NoExecutionUnderControl ==
    cfg.shutdown = "Terminate" \/ cfg.suspend =>
        /\ ~last.exit.ran
        /\ \A i \in DOMAIN last.calls : last.calls[i].op # "CreatePod"
        /\ DOMAIN wf.nodes = {} /\ DOMAIN pods = {}

\* the workflow-level lock was denied in the last reconciliation
LockDenied == last.calls # <<>> /\ last.calls[1] = Call("TryAcquire", "", FALSE)

C18_QueueAfterUpdate ==
    /\ last.completedPods # {} =>
          last.persistLog[1] \in {"updated", "reapplied"} /\ last.persisted
    /\ last.persistLog # <<>>
          /\ last.persistLog[1] \in {"clean", "updateErr", "tooLarge", "reapplyErr"} =>
              last.completedPods = {}

C18_Witness ==
    /\ last.completedPods = {<<Entry, "Succeeded">>}
    /\ last.persistLog = <<"reapplied">>
    /\ wf.nodes[Entry].phase = "Succeeded"

\* C19: once an operation has set the dirty flag woc.updated, nothing resets it to
\* false before persistUpdates runs; the result of SyncManager.TryAcquire in
\* particular never clears a flag that was set earlier.
C19_DirtyFlagKept == ~last.cleared

\* C20: retry limit: when the last child of a retry node has failed or errored, the
\* policy allows a retry and the node has more children than the limit, the retry
\* node is marked Failed with the message 'No more retries left', whatever the
\* failure class of the last child.
C20_LimitMarksFailed ==
    \A n \in DOMAIN wf.nodes :
        (wf.nodes[n].type = "Retry" /\ wf.nodes[n].message = "No more retries left")
            => wf.nodes[n].phase = "Failed"


(***************************************************************************)
(* SpecAttempts: the reconciliations of a workflow whose entry template    *)
(* holds a mutex and is retried more than once.                            *)
(***************************************************************************)
AttemptConfigs ==
    {[NewSpec(TRUE, FALSE, -1, TRUE, FALSE) EXCEPT !.limit = RetryLimit + 1]}

InitAttempts ==
    /\ wf = NewWorkflow
    /\ pods = <<>>
    /\ now = 1
    /\ held = {} /\ lockBusy = FALSE
    /\ last = NoLast
    /\ cfg \in AttemptConfigs
    /\ ops = 0
    /\ srv = NewWorkflow /\ woc = <<>> /\ gpc = <<>> /\ seenPods = {}

SpecAttempts == InitAttempts /\ [][Next]_vars

\* C21: across any sequence of reconciliations a retry node with limit L never has
\* more than L+1 children, a new child NAME(K) is created only when all existing
\* children are terminal and the last one is Failed or Error, and K is the number
\* of children that existed before it (indices 0, 1, 2, ... without gaps or repeats).
C21_ChildrenInOrder ==
    /\ \A n \in DOMAIN wf.nodes :
          wf.nodes[n].type = "Retry" =>
              /\ cfg.limit >= 0 => Len(wf.nodes[n].children) <= cfg.limit + 1
              /\ \A i \in DOMAIN wf.nodes[n].children :
                    wf.nodes[n].children[i] = ChildName(n, i - 1)
    /\ \A j \in DOMAIN last.spawned :
          LET s == last.spawned[j]
          IN /\ s.name = ChildName(Entry, Len(s.children))
             /\ \A i \in DOMAIN s.phases : Fulfilled(s.phases[i])
             /\ s.phases # <<>> => FailedOrError(s.phases[Len(s.phases)])


\* the retry node waits: it is not terminal and its last child has failed or errored
RetryPending ==
    /\ ~Fulfilled(wf.nodes[Entry].phase)
    /\ wf.nodes[Entry].children # <<>>
    /\ FailedOrError(wf.nodes[wf.nodes[Entry].children[Len(wf.nodes[Entry].children)]].phase)

\* the instant the backoff after the last child ends
WaitingDeadline ==
    LET children == wf.nodes[Entry].children
    IN wf.nodes[children[Len(children)]].finishedAt
          + ExpectedWait(cfg.duration, cfg.factor, Len(children))

\* the instant after which maxDuration forbids further attempts
MaxDurationDeadline == wf.nodes[wf.nodes[Entry].children[1]].startedAt + cfg.maxDuration

\* one of the two maxDuration conditions, which come before the wait, applies
MaxDurationDecides ==
    cfg.maxDuration # 0 /\ (now > MaxDurationDeadline \/ WaitingDeadline > MaxDurationDeadline)

\* the backoff is still running and nothing that comes before the wait decides
BackoffRunning ==
    RetryPending /\ cfg.backoff /\ cfg.shutdown = "" /\ ~MaxDurationDecides /\ now < WaitingDeadline

\* C22: backoff wait: while the current time is before lastChild.finishedAt + wait,
\* processNodeRetries creates no new child, leaves the phase of the retry node
\* unchanged, sets its message to 'Backoff for <wait>', requeues the workflow and
\* tells the caller not to continue; a new child is created only in a visit at or
\* after lastChild.finishedAt + wait.
C22_BackoffWait ==
    [][
        /\ (BackoffRunning /\ now' = now) =>
             /\ wf'.nodes[Entry].children = wf.nodes[Entry].children
             /\ DOMAIN wf'.nodes = DOMAIN wf.nodes
             /\ ~CreatedChild' /\ last'.spawned = <<>>
             /\ wf'.nodes[Entry].phase = wf.nodes[Entry].phase
             /\ wf'.nodes[Entry].message
                   = "Backoff for " \o ToString(ExpectedWait(cfg.duration, cfg.factor,
                                                             Len(wf.nodes[Entry].children)))
             /\ last'.requeue /\ RequeuedAfter' # -1
             /\ ~last'.cont
        /\ (RetryPending /\ cfg.backoff /\ last'.spawned # <<>>) => now >= WaitingDeadline
      ]_vars

C22_Witness ==
    /\ ~last.cont /\ last.requeue
    /\ wf.nodes[Entry].phase = "Running" /\ wf.nodes[Entry].message = "Backoff for 20"
    /\ Len(wf.nodes[Entry].children) = 2


\* wfQueue.AddAfter(key, d) called at t: the instant the key is handed to a worker again
AddAfter(t, d) == t + d

\* C23: when the retry planner decides to wait, the workflow is requeued for the
\* instant lastChild.finishedAt + wait (child failed at T=5 with wait 10, reconciled
\* at T=6: requeued for T=15), not for the time of the reconciliation plus wait.
C23_RequeueInstant ==
    RequeuedAfter # -1 => AddAfter(now, RequeuedAfter) = WaitingDeadline


\* C24: retry maxDuration: with backoff.maxDuration set, no new child is spawned once
\* now > firstChild.startedAt + maxDuration, nor when lastChild.finishedAt + wait
\* would fall after firstChild.startedAt + maxDuration; in both cases the retry node
\* is made terminal with a failure phase instead of waiting, so that the attempts
\* after the first all start within maxDuration of the first.
C24_MaxDuration ==
    [][
        /\ (RetryPending /\ cfg.backoff /\ cfg.shutdown = "" /\ MaxDurationDecides /\ now' = now) =>
             /\ wf'.nodes[Entry].children = wf.nodes[Entry].children
             /\ DOMAIN wf'.nodes = DOMAIN wf.nodes
             /\ ~CreatedChild' /\ last'.spawned = <<>>
             /\ FailedOrError(wf'.nodes[Entry].phase)
             /\ RequeuedAfter' = -1 /\ ~last'.requeue
        /\ cfg.maxDuration # 0 =>
             \A i \in DOMAIN wf'.nodes[Entry].children :
                 wf'.nodes[wf'.nodes[Entry].children[i]].startedAt
                     <= wf'.nodes[wf'.nodes[Entry].children[1]].startedAt + cfg.maxDuration
      ]_vars

C24_Witness ==
    /\ cfg.maxDuration # 0
    /\ wf.nodes[Entry].phase = "Failed"
    /\ wf.nodes[Entry].message = "Backoff would exceed max duration limit"
    /\ Len(wf.nodes[Entry].children) = 2


\* the last child of the retry node
LastChild == wf.nodes[wf.nodes[Entry].children[Len(wf.nodes[Entry].children)]]

\* the classification of the claim: whether the policy allows another attempt
RetryAllowed(policy, child) ==
    CASE policy = "Always" -> TRUE
      [] policy \in {"OnFailure", ""} -> child.phase = "Failed"
      [] policy = "OnError" -> child.phase = "Error"
      [] policy = "OnTransientError" -> child.message = "transient"
      [] OTHER -> FALSE

\* C25: retry policy classification: after the last child ended Failed or Error a new
\* attempt is allowed only as follows: Always retries on Failed and on Error;
\* OnFailure and the empty policy on Failed only; OnError on Error only;
\* OnTransientError only when the last child's message is classified as a transient
\* error.  When the retry is not allowed the retry node takes the phase and the
\* message of the last child; an unknown policy yields an error.
C25_PolicyClassification ==
    [][
        (RetryPending /\ ~cfg.backoff /\ cfg.shutdown = "" /\ now' = now) =>
            /\ last'.spawned # <<>> => RetryAllowed(cfg.policy, LastChild)
            /\ (RetryAllowed(cfg.policy, LastChild) /\ Len(wf.nodes[Entry].children) <= cfg.limit)
                  => /\ Len(last'.spawned) = 1
                     /\ last'.spawned[1].children = wf.nodes[Entry].children
            /\ (cfg.policy \in KnownRetryPolicies /\ ~RetryAllowed(cfg.policy, LastChild))
                  => /\ wf'.nodes[Entry].phase = LastChild.phase
                     /\ wf'.nodes[Entry].message = LastChild.message
            /\ cfg.policy \notin KnownRetryPolicies
                  => /\ last'.err = cfg.policy \o " is not a valid RetryPolicy"
                     /\ wf'.nodes[Entry].phase = "Error"
      ]_vars

C25_Witness ==
    /\ cfg.policy = "OnTransientError"
    /\ Len(wf.nodes[Entry].children) = 3
    /\ wf.nodes[Entry].phase = "Error" /\ wf.nodes[Entry].message = "Error (exit code 1)"
    /\ wf.nodes[ChildName(Entry, 1)].phase = "Failed" /\ wf.nodes[ChildName(Entry, 1)].message = "transient"


(***************************************************************************)
(* SpecGuard: the parallelism guard of executeTemplate.  A Steps node      *)
(* (the boundary) has one or two children; executeTemplate is called for   *)
(* the Steps node itself and for a pod node inside the boundary.  The      *)
(* template of the boundary carries failFast and parallelism.              *)
(***************************************************************************)
ErrParallelismReached == "ErrParallelismReached"

GuardPhases == {"Pending", "Running", "Succeeded", "Failed", "Error"}

\* the workflow spec with the options of the boundary template
GuardConfigs ==
    {[failFast |-> ff, tmplParallelism |-> tp] @@ NewSpec(FALSE, FALSE, wp, FALSE, FALSE) :
        ff \in BOOLEAN, tp \in {-1, 1, 2}, wp \in {-1, 1, 2}}

\* getUnsuccessfulChildren(boundaryID): the Failed and Error nodes of the boundary
getUnsuccessfulChildren(w, boundaryID) ==
    Cardinality({i \in DOMAIN w.wf.nodes[boundaryID].children :
                    FailedOrError(w.wf.nodes[w.wf.nodes[boundaryID].children[i]].phase)})

\* getActiveChildren(boundaryID) and getActivePods(boundaryID): all nodes of the boundary
\* are pods here
getActiveChildren(w, boundaryID) ==
    Cardinality({i \in DOMAIN w.wf.nodes[boundaryID].children :
                    w.wf.nodes[w.wf.nodes[boundaryID].children[i]].phase \in {"Pending", "Running"}})

\* checkParallelism(tmpl, node, boundaryID); tmplType is tmpl.GetType(), the error is w.err
checkParallelismOf(w, tmplType, name, boundaryID) ==
    LET failFastMessage == "template has failed or errored children and failFast enabled"
        refused(w1) == [w1 EXCEPT !.err = ErrParallelismReached]
        boundary(w1) ==
            IF boundaryID # "" /\ (~HasNode(w1, name) \/ w1.wf.nodes[name].phase \notin {"Pending", "Running"})
              THEN IF ~HasNode(w1, boundaryID) THEN [w1 EXCEPT !.err = "boundaryNode not found"]
                   ELSE IF w1.cfg.failFast /\ getUnsuccessfulChildren(w1, boundaryID) > 0
                     THEN refused(markNodePhase(w1, boundaryID, "Failed", <<failFastMessage>>))
                   ELSE IF w1.cfg.tmplParallelism >= 0
                             /\ getActiveChildren(w1, boundaryID) >= w1.cfg.tmplParallelism
                     THEN refused(w1)
                   ELSE [w1 EXCEPT !.err = ""]
              ELSE [w1 EXCEPT !.err = ""]
    IN IF checkParallelism(w) # "" THEN refused(w)
       ELSE IF HasNode(w, name) /\ tmplType \in {"DAG", "Steps"}
                 /\ w.cfg.failFast /\ getUnsuccessfulChildren(w, name) > 0
         THEN refused(markNodePhase(w, name, "Failed", <<failFastMessage>>))
       ELSE IF HasNode(w, name) /\ tmplType \in {"DAG", "Steps"}
                 /\ w.cfg.tmplParallelism >= 0 /\ getActiveChildren(w, name) >= w.cfg.tmplParallelism
         THEN refused(w)
       ELSE boundary(w)

InitGuard ==
    /\ cfg \in GuardConfigs
    /\ now = 2
    /\ \E p0 \in GuardPhases, p1 \in GuardPhases \cup {""} :
          LET child(p) == [NewNode("Pod", p, "", 1) EXCEPT !.finishedAt = IF Fulfilled(p) THEN 1 ELSE 0]
              names == IF p1 = "" THEN <<ChildName(Entry, 0)>>
                       ELSE <<ChildName(Entry, 0), ChildName(Entry, 1)>>
          IN wf = [NewWorkflow EXCEPT
                     !.phase = "Running", !.startedAt = 1,
                     !.nodes = (IF p1 = "" THEN <<>> ELSE (ChildName(Entry, 1) :> child(p1)))
                                 @@ (ChildName(Entry, 0) :> child(p0))
                                 @@ (Entry :> [NewNode("Steps", "Running", "", 1) EXCEPT !.children = names])]
    /\ pods = <<>> /\ held = {} /\ lockBusy = FALSE /\ last = NoLast
    /\ ops = 0 /\ srv = NewWorkflow /\ woc = <<>> /\ gpc = <<>> /\ seenPods = {}

\* the context of a reconciliation that has counted the active pods
GuardCtx ==
    LET counted(w) == [w EXCEPT !.activePods = getActivePods(w)]
    IN counted(newWorkflowOperationCtx(wf, pods, held, lockBusy, cfg, now, NoEnv))

\* executeTemplate is called for the Steps node: up to the parallelism guard
GuardSteps ==
    /\ ops = 0 /\ ~Fulfilled(wf.nodes[Entry].phase)
    /\ LET guarded(w) ==
               /\ wf' = w.wf
               /\ last' = [NoLast EXCEPT !.err = w.err, !.calls = w.calls, !.updated = w.updated]
       IN guarded(checkParallelismOf(GuardCtx, "Steps", Entry, ""))
    /\ ops' = 1
    /\ UNCHANGED <<pods, now, held, lockBusy, cfg, srv, woc, gpc, seenPods>>

\* executeTemplate is called for the second pod of the boundary
GuardPod ==
    /\ ops = 0 /\ ~Fulfilled(wf.nodes[Entry].phase)
    /\ ~(HasNode(GuardCtx, ChildName(Entry, 1)) /\ Fulfilled(wf.nodes[ChildName(Entry, 1)].phase))
    /\ LET visited(w) ==
               /\ wf' = w.wf
               /\ pods' = w.pods
               /\ last' = [NoLast EXCEPT !.err = w.err, !.calls = w.calls, !.updated = w.updated]
           guarded(w) ==
               IF w.err # "" THEN visited(w)
               ELSE visited(executeTemplate(addChildNode(w, Entry, ChildName(Entry, 1)),
                                            ChildName(Entry, 1), NewTmpl(FALSE, FALSE)))
       IN guarded(checkParallelismOf(GuardCtx, "Container", ChildName(Entry, 1), Entry))
    /\ ops' = 1
    /\ UNCHANGED <<now, held, lockBusy, cfg, srv, woc, gpc, seenPods>>

NextGuard == GuardSteps \/ GuardPod

SpecGuard == InitGuard /\ [][NextGuard]_vars

\* C26: when executeTemplate is refused by the parallelism guard (ErrParallelismReached
\* from the workflow parallelism, the template parallelism, failFast or the limits of
\* the boundary) it returns without creating a pod and without changing any existing
\* node: the node and its boundary node keep their phase, message and timestamps.
C26_RefusalFrame ==
    [][last'.err = ErrParallelismReached =>
          /\ pods' = pods
          /\ \A i \in DOMAIN last'.calls : last'.calls[i].op # "CreatePod"
          /\ wf'.nodes = wf.nodes]_vars


\* C27: when a node moves into a terminal phase during pod assessment and the outputs
\* annotation of the pod cannot be parsed, the node ends that assessment in phase
\* Error with the parse error as its message, whatever phase the pod's status maps to.
C27_ParseErrorPhase ==
    [][(/\ ~Fulfilled(wf.nodes[Entry].phase) /\ Fulfilled(wf'.nodes[Entry].phase)
        /\ pods[Entry].outputsAnn = "bad" /\ getExitCode(pods[Entry]) # -1)
          => /\ wf'.nodes[Entry].phase = "Error"
             /\ wf'.nodes[Entry].message = "invalid outputs"]_vars


(***************************************************************************)
(* SpecInfer: podReconciliation of a Running pod node whose pod has        *)
(* Failed, for every combination of the states of its init, wait, main     *)
(* and sidecar containers.                                                 *)
(***************************************************************************)
\* what a container status can be: waiting, running, or terminated with an exit code
CtrEndings ==
    {[state |-> "waiting", exit |-> 0], [state |-> "running", exit |-> 0]}
      \cup [state : {"terminated"}, exit : {0, 1, 137, 143}]

InferPods ==
    {[NewPod("Failed", <<Ctr("init", i.state, i.exit, FALSE, 1), Ctr("wait", w.state, w.exit, FALSE, 3),
                         Ctr("main", m.state, m.exit, FALSE, 2), Ctr("sidecar", c.state, c.exit, FALSE, 3)>>)
        EXCEPT !.message = msg] :
        i \in CtrEndings, w \in CtrEndings, m \in CtrEndings, c \in CtrEndings, msg \in {"", "evicted"}}

InitInfer ==
    /\ wf = [NewWorkflow EXCEPT !.phase = "Running",
                                !.nodes = (Entry :> [NewNode("Pod", "Running", "", 1) EXCEPT !.host = "h1"])]
    /\ \E pod \in InferPods : pods = (Entry :> pod)
    /\ now = 20
    /\ held = {} /\ lockBusy = FALSE
    /\ last = NoLast
    /\ cfg = NewSpec(FALSE, FALSE, -1, FALSE, FALSE)
    /\ ops = 0
    /\ srv = NewWorkflow /\ woc = <<>> /\ gpc = <<>> /\ seenPods = {}

SpecInfer == InitInfer /\ [][NextAssess]_vars

\* the rank of a container in the claim: init, main, wait, sidecar
ClaimRank(name) == CASE name = "init" -> 0 [] name = "main" -> 1 [] name = "wait" -> 2 [] OTHER -> 3

\* the container decides the reason: it is still waiting, or it terminated with a
\* non-zero exit code that is not the kill of a sidecar
Decides(c) ==
    \/ c.state = "waiting"
    \/ c.state = "terminated" /\ c.exit # 0 /\ ~(ClaimRank(c.name) = 3 /\ c.exit \in {137, 143})

\* the phase and message the claim gives a Failed pod
ExpectedReason(pod) ==
    LET deciding == {i \in DOMAIN pod.ctrs : Decides(pod.ctrs[i])}
        first == CHOOSE i \in deciding :
                    \A j \in deciding : ClaimRank(pod.ctrs[i].name) <= ClaimRank(pod.ctrs[j].name)
        c == pod.ctrs[first]
    IN IF pod.message # "" THEN [phase |-> "Failed", message |-> pod.message]
       ELSE IF deciding = {} THEN [phase |-> "Succeeded", message |-> ""]
       ELSE IF c.state = "waiting"
         THEN [phase |-> "Error", message |-> "Pod failed before " \o c.name \o " container starts"]
       ELSE [phase |-> IF c.name \in {"init", "wait"} THEN "Error" ELSE "Failed",
             message |-> "Error (exit code " \o ToString(c.exit) \o ")"]

\* C28: inferFailedReason: a Failed pod with a status message gives Failed with that
\* message; otherwise the containers are examined in the order init, main, wait,
\* sidecar and the first with a non-zero exit code decides: init gives Error, main
\* Failed, wait Error, a sidecar with exit code 137 or 143 is ignored, any other
\* sidecar gives Failed; if nothing decides the phase is Succeeded; a container
\* still waiting gives Error 'Pod failed before X container starts'.
C28_InferFailedReason ==
    /\ inferFailedReason(pods[Entry]) = ExpectedReason(pods[Entry])
    /\ ops > 0 =>
          /\ wf.nodes[Entry].phase = ExpectedReason(pods[Entry]).phase
          /\ wf.nodes[Entry].message = ExpectedReason(pods[Entry]).message

C28_Witness ==
    /\ ops > 0
    /\ wf.nodes[Entry].phase = "Error" /\ wf.nodes[Entry].message = "Error (exit code 1)"
    /\ \E i \in DOMAIN pods[Entry].ctrs :
          pods[Entry].ctrs[i].name = "sidecar" /\ pods[Entry].ctrs[i].exit = 137
    /\ \E i \in DOMAIN pods[Entry].ctrs :
          pods[Entry].ctrs[i].name = "wait" /\ pods[Entry].ctrs[i].exit = 1
    /\ \E i \in DOMAIN pods[Entry].ctrs :
          pods[Entry].ctrs[i].name = "main" /\ pods[Entry].ctrs[i].exit = 0
                                           /\ pods[Entry].ctrs[i].state = "terminated"


\* reapplyUpdate runs in one goroutine: the next call of its loop is made
SpecReapplyFair == SpecReapply /\ WF_vars(ReapplyFetch) /\ WF_vars(ReapplySend)

\* C29: reapplyUpdate terminates: it makes at most 5 Update attempts, each preceded
\* by a fresh Get of the latest workflow, returns the written workflow on the first
\* Update that succeeds and the last error after the fifth failed attempt; on
\* success the resulting object carries the nodes of the local reconciliation.
C29_ReapplyTerminates ==
    /\ [](/\ Len(woc.sentOn) <= 5
          /\ woc.gets \in {Len(woc.sentOn), Len(woc.sentOn) + 1}
          /\ woc.pc = "update" => woc.gets = Len(woc.sentOn) + 1
          /\ woc.pc = "done" =>
                /\ woc.result.nodes = wf.nodes
                /\ woc.result.rv = woc.currWf.rv + 1
                /\ woc.attempt = Len(woc.sentOn)
          /\ (woc.pc = "failed" /\ woc.err = "update failed") => Len(woc.sentOn) = 5)
    /\ <>(woc.pc \in {"done", "failed"})

C29_Witness ==
    /\ woc.pc = "done" /\ Len(woc.sentOn) = 5
    /\ woc.result.nodes = wf.nodes /\ woc.result.nodes # srv.nodes

\* ---------------------------------------------------------------------------
\* the size-limit failure of persistUpdates
\* ---------------------------------------------------------------------------

\* the original workflow after markWorkflowError: a Running entry node is marked as well
MarkedOriginalNodes(orig) ==
    [n \in DOMAIN orig.nodes |->
        IF n = Entry /\ orig.nodes[n].phase = "Running"
          THEN [orig.nodes[n] EXCEPT !.phase = "Error", !.message = "Workflow operation error"]
          ELSE orig.nodes[n]]

\* C30: when Update answers "request entity too large", the stored workflow is the
\* original of the reconciliation marked Error with the size error message (no node,
\* artifact reference or other change of the reconciliation survives), it is written
\* exactly once, no conflict re-apply (Get) is made and no pod is queued for cleanup
C30_SizeLimitFailure ==
    [][
        (ops' # ops /\ last'.outcome = "tooLarge") =>
            /\ wf'.nodes = MarkedOriginalNodes(wf)
            /\ wf'.phase = "Error"
            /\ wf'.message = "request entity too large"
            /\ wf'.artifactRef = wf.artifactRef
            /\ wf'.rv = wf.rv + 1
            /\ last'.updates = <<"Error">>
            /\ last'.completedPods = {}
            /\ \A i \in DOMAIN last'.calls : last'.calls[i].op # "Get"
    ]_vars

\* a size-limit failure of a reconciliation that had created a pod for a node
\* the stored workflow does not hold
C30_Witness ==
    /\ last.outcome = "tooLarge"
    /\ wf.phase = "Error"
    /\ \E i \in DOMAIN last.calls :
          /\ last.calls[i].op = "CreatePod"
          /\ last.calls[i].node \notin DOMAIN wf.nodes

(***************************************************************************)
(* SpecPodGC: the reconciliations of a plain workflow under each pod GC    *)
(* strategy.                                                               *)
(***************************************************************************)
PodGCConfigs ==
    {[NewSpec(FALSE, FALSE, -1, FALSE, FALSE) EXCEPT !.podGC = g] : g \in PodGCStrategies}

InitPodGC ==
    /\ wf = NewWorkflow
    /\ pods = <<>>
    /\ now = 1
    /\ held = {} /\ lockBusy = FALSE
    /\ last = NoLast
    /\ cfg \in PodGCConfigs
    /\ ops = 0
    /\ srv = NewWorkflow /\ woc = <<>> /\ gpc = <<>> /\ seenPods = {}

\* no template of these workflows takes a mutex
NextPodGC == Operate \/ PodProgress \/ InformerSync \/ Tick

SpecPodGC == InitPodGC /\ [][NextPodGC]_vars

\* C31: after a successful update every pod of completedPods is dispatched: under
\* OnPodSuccess deletion is queued exactly for the pods whose phase is Succeeded, under
\* OnPodCompletion for every completed pod, a pod no GC applies to is labelled
\* completed, and so every pod of completedPods is queued for deletion or labelled
C31_PodGCDispatch ==
    \A cp \in last.completedPods :
        /\ cfg.podGC = "OnPodSuccess" =>
              (<<cp[1], "deletePod">> \in last.cleanup <=> cp[2] = "Succeeded")
        /\ cfg.podGC = "OnPodCompletion" => <<cp[1], "deletePod">> \in last.cleanup
        /\ \/ <<cp[1], "deletePod">> \in last.cleanup
           \/ <<cp[1], "labelPodCompleted">> \in last.cleanup

(***************************************************************************)
(* SpecDeadline: reconciliations during which the operation deadline       *)
(* (maxOperationTime after the context was made) may pass.                 *)
(***************************************************************************)
\* the checks of the operation deadline one reconciliation may fail from: none, the
\* first (the entry template), the second (a retry node executed again, the exit handler)
LateChecks == 0..2

\* plain, retried, with an exit handler, with a mutex, retried under parallelism 1
DeadlineConfigs ==
    {NewSpec(FALSE, FALSE, -1, FALSE, FALSE), NewSpec(TRUE, FALSE, -1, FALSE, FALSE),
     NewSpec(FALSE, TRUE, -1, FALSE, FALSE), NewSpec(FALSE, FALSE, -1, TRUE, FALSE),
     NewSpec(TRUE, FALSE, 1, FALSE, FALSE)}

InitDeadline ==
    /\ wf = NewWorkflow
    /\ pods = <<>>
    /\ now = 1
    /\ held = {} /\ lockBusy = FALSE
    /\ last = NoLast
    /\ cfg \in DeadlineConfigs
    /\ ops = 0
    /\ srv = NewWorkflow /\ woc = <<>> /\ gpc = <<>> /\ seenPods = {}

\* one reconciliation whose API calls all succeed, the creation of a pod excepted
OperateLate ==
    /\ ops < MaxOps
    /\ ~wf.completed
    /\ \E late \in LateChecks, pod \in PodFaults :
          LET operated(w) ==
                  /\ wf' = w.server
                  /\ pods' = w.pods
                  /\ held' = w.held
                  /\ last' = Summary(w, wf)
          IN operated(operate(newWorkflowOperationCtx(wf, pods, held, lockBusy, cfg, now,
                                                      [NoEnv EXCEPT !.late = late, !.pod = pod])))
    /\ ops' = ops + 1
    /\ UNCHANGED <<now, lockBusy, cfg, srv, woc, gpc, seenPods>>

NextDeadline == OperateLate \/ PodProgress \/ InformerSync \/ Tick \/ OtherWorkflowLock

SpecDeadline == InitDeadline /\ [][NextDeadline]_vars

\* C32: a reconciliation in which executeTemplate finds the operation deadline passed
\* (the return of ErrDeadlineExceeded) requeues the workflow; from that return on it
\* creates no pod and acquires no lock, and the workflow phase it stores is the one
\* the workflow had at that return
C32_SoftDeadline ==
    last.deadline.hit =>
        /\ last.requeue
        /\ \A i \in DOMAIN last.calls :
              i > last.deadline.calls => last.calls[i].op \notin {"CreatePod", "TryAcquire"}
        /\ held = last.deadline.held
        /\ wf.phase = last.deadline.phase

\* the deadline passed before the entry template of a workflow without nodes was
\* executed: no node, no pod
C32_Witness ==
    /\ last.deadline.hit /\ last.deadline.node = Entry
    /\ wf.nodes = <<>> /\ pods = <<>>
    /\ wf.phase = "Running"

(***************************************************************************)
(* SpecMemo: the reconciliations of a workflow whose entry template is     *)
(* memoized.  The cache belongs to the environment: what Load finds is an  *)
(* input of each reconciliation, Save is a call the reconciliation makes.  *)
(***************************************************************************)
MemoMaxAge == 10     \* memoize.maxAge, seconds

\* the outputs a cache entry holds
CachedOutputs == [set |-> TRUE, exit |-> 0, ann |-> "cached"]

\* no entry, a new one, one of exactly maxAge, one older than maxAge
CacheEntries ==
    {NoEntry} \cup {[exists |-> TRUE, age |-> a, outputs |-> CachedOutputs] :
                       a \in {0, MemoMaxAge, MemoMaxAge + 1}}

\* memoized without and with maxAge
MemoConfigs ==
    {[NewSpec(FALSE, FALSE, -1, FALSE, FALSE) EXCEPT !.memoize = TRUE, !.maxAge = a] :
        a \in {-1, MemoMaxAge}}

InitMemo ==
    /\ wf = NewWorkflow
    /\ pods = <<>>
    /\ now = 1
    /\ held = {} /\ lockBusy = FALSE
    /\ last = NoLast
    /\ cfg \in MemoConfigs
    /\ ops = 0
    /\ srv = NewWorkflow /\ woc = <<>> /\ gpc = <<>> /\ seenPods = {}

\* one reconciliation whose workflow update succeeds
OperateMemo ==
    /\ ops < MaxOps
    /\ ~wf.completed
    /\ \E entry \in CacheEntries, pod \in PodFaults :
          LET operated(w) ==
                  /\ wf' = w.server
                  /\ pods' = w.pods
                  /\ held' = w.held
                  /\ last' = Summary(w, wf)
          IN operated(operate(newWorkflowOperationCtx(wf, pods, held, lockBusy, cfg, now,
                                                      [NoEnv EXCEPT !.entry = entry, !.pod = pod])))
    /\ ops' = ops + 1
    /\ UNCHANGED <<now, lockBusy, cfg, srv, woc, gpc, seenPods>>

NextMemo == OperateMemo \/ PodProgress \/ InformerSync \/ Tick

SpecMemo == InitMemo /\ [][NextMemo]_vars

\* the calls of a reconciliation with the given operation
CallsOf(calls, op) == {i \in DOMAIN calls : calls[i].op = op}

\* C33: the first reconciliation of a memoized template (no node yet) loads the cache;
\* a hit (an entry exists and, with maxAge set, is not older than maxAge) leaves the node
\* Succeeded with the cached outputs and the memoization status hit=true and creates
\* no pod; a miss leaves the memoization status hit=false with the key and the cache
\* name, goes on to create the pod, and the node is Pending when the pod was created
C33_Memoization ==
    [][
        (ops' # ops /\ Entry \notin DOMAIN wf.nodes) =>
            LET e == last'.loaded
                hit == e.exists /\ (cfg.maxAge # -1 => e.age <= cfg.maxAge)
                created == CallsOf(last'.calls, "CreatePod")
            IN /\ Entry \in DOMAIN wf'.nodes
               /\ wf'.nodes[Entry].memoizationStatus =
                      [set |-> TRUE, hit |-> hit, key |-> MemoizeKey, cacheName |-> MemoizeCacheName]
               /\ hit => /\ wf'.nodes[Entry].phase = "Succeeded"
                         /\ wf'.nodes[Entry].outputs = e.outputs
                         /\ created = {} /\ pods' = pods
               /\ ~hit => /\ created # {}
                          /\ (\E i \in created : last'.calls[i].arg = "ok") =>
                                 (wf'.nodes[Entry].phase = "Pending" /\ Entry \in DOMAIN pods')
    ]_vars

\* a cache hit on an entry of exactly maxAge: the workflow succeeds without any pod
C33_Witness ==
    /\ cfg.maxAge = MemoMaxAge /\ last.loaded.exists /\ last.loaded.age = MemoMaxAge
    /\ Entry \in DOMAIN wf.nodes /\ wf.nodes[Entry].memoizationStatus.hit
    /\ wf.phase = "Succeeded" /\ pods = <<>>

\* C34: pod reconciliation saves the outputs of a memoized node to the cache only when
\* the node has become terminal in that assessment: every Save is made for a node whose
\* phase is then terminal
C34_SaveOnlyWhenTerminal ==
    \A i \in CallsOf(last.calls, "Save") : Fulfilled(last.calls[i].arg.phase)

(***************************************************************************)
(* SpecStop: the reconciliations of workflows that are stopped, run past   *)
(* their activeDeadlineSeconds, or execute a suspend template.             *)
(***************************************************************************)
SuspendDuration == 10       \* suspend.duration, seconds
ActiveDeadlineSeconds == 10 \* spec.activeDeadlineSeconds

\* a pod template past its deadline or stopped; a suspend template with a duration,
\* with a workflow deadline only, stopped, with the workflow deadline the earlier and
\* with the suspend deadline the earlier of the two
StopConfigs ==
    LET plain == NewSpec(FALSE, FALSE, -1, FALSE, FALSE)
        suspend == [plain EXCEPT !.suspendTmpl = TRUE]
    IN {[plain EXCEPT !.activeDeadline = ActiveDeadlineSeconds],
        [plain EXCEPT !.shutdown = "Stop"],
        [suspend EXCEPT !.suspendDuration = SuspendDuration],
        [suspend EXCEPT !.activeDeadline = ActiveDeadlineSeconds],
        [suspend EXCEPT !.suspendDuration = SuspendDuration, !.shutdown = "Stop"],
        [suspend EXCEPT !.suspendDuration = 2 * SuspendDuration,
                        !.activeDeadline = ActiveDeadlineSeconds],
        [suspend EXCEPT !.suspendDuration = SuspendDuration,
                        !.activeDeadline = 2 * ActiveDeadlineSeconds]}

InitStop ==
    /\ wf = NewWorkflow
    /\ pods = <<>>
    /\ now = 1
    /\ held = {} /\ lockBusy = FALSE
    /\ last = NoLast
    /\ cfg \in StopConfigs
    /\ ops = 0
    /\ srv = NewWorkflow /\ woc = <<>> /\ gpc = <<>> /\ seenPods = {}

\* one reconciliation whose API calls succeed, but for the creation of a pod
OperateStop ==
    /\ ops < MaxOps
    /\ ~wf.completed
    /\ \E pod \in PodFaults :
          LET operated(w) ==
                  /\ wf' = w.server
                  /\ pods' = w.pods
                  /\ held' = w.held
                  /\ last' = Summary(w, wf)
          IN operated(operate(newWorkflowOperationCtx(wf, pods, held, lockBusy, cfg, now,
                                                      [NoEnv EXCEPT !.pod = pod])))
    /\ ops' = ops + 1
    /\ UNCHANGED <<now, lockBusy, cfg, srv, woc, gpc, seenPods>>

NextStop == OperateStop \/ PodProgress \/ InformerSync \/ Tick

SpecStop == InitStop /\ [][NextStop]_vars

\* C35: after the pod reconciliation, when the workflow deadline has passed or a shutdown
\* strategy is set, no node is left Pending and no suspend node is left active: each is
\* marked Failed, with 'Stopped with strategy ...' under shutdown and 'Step exceeded
\* its deadline' otherwise
C35_FailPendingAndSuspended ==
    (last.stopLog.ran /\ (last.stopLog.shutdown \/ last.stopLog.deadlineExceeded)) =>
        /\ last.stopLog.pending = {}
        /\ last.stopLog.suspended = {}
        /\ \A f \in last.stopLog.failed :
              /\ f[2] = "Failed"
              /\ f[3] = IF last.stopLog.shutdown
                          THEN "Stopped with strategy '" \o cfg.shutdown \o "'"
                          ELSE "Step exceeded its deadline"

\* the resume deadline of the suspend node of workflow w0: the earlier of the workflow
\* deadline and startedAt + suspend.duration, 0 when neither is set
ResumeDeadline(w0) ==
    LET suspendDeadline == w0.nodes[Entry].startedAt + cfg.suspendDuration
        workflowDeadline == w0.startedAt + cfg.activeDeadline
    IN IF cfg.suspendDuration = -1
         THEN (IF cfg.activeDeadline = 0 THEN 0 ELSE workflowDeadline)
       ELSE IF cfg.activeDeadline # 0 /\ workflowDeadline < suspendDeadline
         THEN workflowDeadline
       ELSE suspendDeadline

\* C36: the first execution of a suspend template leaves a Suspend node Running and
\* requeues the workflow for the resume deadline; a later reconciliation marks the
\* node Succeeded when now is past the resume deadline and leaves it Running before
C36_Suspend ==
    [][
        (ops' # ops /\ cfg.suspendTmpl) =>
            /\ (Entry \notin DOMAIN wf.nodes /\ Entry \in DOMAIN wf'.nodes) =>
                  /\ wf'.nodes[Entry].type = "Suspend"
                  /\ wf'.nodes[Entry].phase = "Running"
                  /\ ResumeDeadline(wf') # 0 =>
                        \E i \in CallsOf(last'.calls, "requeueAfter") :
                            AddAfter(now, last'.calls[i].arg) = ResumeDeadline(wf')
            /\ (Entry \in DOMAIN wf.nodes /\ wf.nodes[Entry].phase = "Running"
                  /\ cfg.shutdown = "") =>
                  wf'.nodes[Entry].phase =
                      IF ResumeDeadline(wf) # 0 /\ now > ResumeDeadline(wf)
                        THEN "Succeeded" ELSE "Running"
    ]_vars

\* C37: a reconciliation in which the creation of a pod fails with a transient error
\* stores the workflow phase the workflow had when the entry template was executed,
\* leaves the node of that pod Pending with the error as its message, requeues the
\* workflow, and the entry template returns no error; an entry template that returns
\* ErrParallelismReached or ErrDeadlineExceeded leaves that workflow phase as well
C37_TransientKeepsPhase ==
    /\ \A i \in DOMAIN last.calls :
          (last.calls[i].op = "CreatePod" /\ IsTransientErr(last.calls[i].arg)) =>
              /\ wf.phase = last.execPhase
              /\ last.calls[i].node \in DOMAIN wf.nodes
              /\ wf.nodes[last.calls[i].node].phase = "Pending"
              /\ wf.nodes[last.calls[i].node].message = last.calls[i].arg
              /\ last.requeue
              /\ last.calls[i].node # OnExitName => last.entryErr = ""
    /\ last.entryErr \in {"ErrParallelismReached", "ErrDeadlineExceeded"} =>
          wf.phase = last.execPhase

\* the pod of the entry template of a running workflow could not be created
C37_Witness ==
    /\ \E i \in DOMAIN last.calls :
          last.calls[i] = Call("CreatePod", Entry, "transient")
    /\ wf.phase = "Running" /\ wf.nodes[Entry].phase = "Pending" /\ pods = <<>>

(***************************************************************************)
(* SpecPVC: createPVCs over the list of volumeClaimTemplates, and the part *)
(* of operate around it.  woc is the workflow status as the reconciliation *)
(* stores it (phase, message, persistentVolumeClaims as the sequence of    *)
(* the template numbers the volumes were made from), gpc the claims of the *)
(* namespace with their owner, cfg the number of volumeClaimTemplates.     *)
(***************************************************************************)
MaxClaimTemplates == 3

\* the errors a Create or Get of a claim may return
ClaimFaults == {"transient", "forbidden"}

WorkflowOwner == "wf"
OtherOwner == "other"

\* the loop of createPVCs from template i on: failAt is the template whose Create (or Get)
\* fails with kind, 0 when none does; the result is the status, the claims and the error
RECURSIVE createPVCsFrom(_, _, _, _, _, _)
createPVCsFrom(st, claims, i, n, failAt, kind) ==
    IF i > n THEN [st |-> st, claims |-> claims, err |-> ""]
    ELSE IF i = failAt THEN [st |-> st, claims |-> claims, err |-> kind]
    ELSE IF i \in DOMAIN claims /\ claims[i] # WorkflowOwner
      THEN [st |-> st, claims |-> claims,
            err |-> "pvc already exists with different ownerreference"]
    ELSE createPVCsFrom([st EXCEPT !.persistentVolumeClaims = Append(@, i), !.updated = TRUE],
                        (i :> WorkflowOwner) @@ claims, i + 1, n, failAt, kind)

\* createPVCs with the list of status.persistentVolumeClaims kept
createPVCsList(st, claims, n, failAt, kind) ==
    IF st.phase \notin {"Pending", "Running"} THEN [st |-> st, claims |-> claims, err |-> ""]
    ELSE IF n = Len(st.persistentVolumeClaims) THEN [st |-> st, claims |-> claims, err |-> ""]
    ELSE createPVCsFrom(st, claims, 1, n, failAt, kind)

\* operate from createPVCs to the execution of the entry template
volumesStep(st, claims, n, failAt, kind) ==
    LET handled(r) ==
            IF r.err = ""
              THEN [r EXCEPT !.st.phase = IF @ = "Pending" THEN "Running" ELSE @,
                             !.st.message = IF r.st.phase = "Pending" THEN "" ELSE @]
            ELSE IF IsTransientErr(r.err)
              THEN [r EXCEPT !.st.phase = "Pending",
                             !.st.message = "Waiting for a PVC to be created",
                             !.st.updated = TRUE, !.st.requeue = TRUE]
            ELSE [r EXCEPT !.st.phase = "Error", !.st.message = "pvc create error",
                           !.st.updated = TRUE]
    IN handled(createPVCsList(st, claims, n, failAt, kind))

InitPVC ==
    /\ wf = NewWorkflow
    /\ pods = <<>>
    /\ now = 1
    /\ held = {} /\ lockBusy = FALSE
    /\ last = NoLast
    /\ cfg \in 1..MaxClaimTemplates
    /\ ops = 0
    /\ srv = NewWorkflow
    /\ woc = [phase |-> "Running", message |-> "", persistentVolumeClaims |-> <<>>,
              updated |-> FALSE, requeue |-> FALSE]
    /\ gpc = <<>>
    /\ seenPods = {}

\* one reconciliation of a workflow that is not finished, as far as the volumes go
OperatePVC ==
    /\ ops < MaxOps
    /\ woc.phase \in {"Pending", "Running"}
    /\ \E failAt \in 0..cfg, kind \in ClaimFaults :
          LET operated(r) ==
                  /\ woc' = r.st
                  /\ gpc' = r.claims
          IN operated(volumesStep([woc EXCEPT !.updated = FALSE, !.requeue = FALSE],
                                  gpc, cfg, failAt, kind))
    /\ ops' = ops + 1
    /\ UNCHANGED <<wf, pods, now, held, lockBusy, last, cfg, srv, seenPods>>

\* somebody else creates a claim with the name of one of the workflow's
OtherClaim ==
    /\ \E i \in 1..cfg :
          /\ i \notin DOMAIN gpc
          /\ gpc' = (i :> OtherOwner) @@ gpc
    /\ UNCHANGED <<wf, pods, now, held, lockBusy, last, cfg, ops, srv, woc, seenPods>>

NextPVC == OperatePVC \/ OtherClaim

SpecPVC == InitPVC /\ [][NextPVC]_vars

\* C39: status.persistentVolumeClaims never holds more entries than the workflow has
\* volumeClaimTemplates, and no template has two entries
C39_OneClaimPerTemplate ==
    /\ Len(woc.persistentVolumeClaims) <= cfg
    /\ \A i, j \in DOMAIN woc.persistentVolumeClaims :
          woc.persistentVolumeClaims[i] = woc.persistentVolumeClaims[j] => i = j

(***************************************************************************)
(* SpecNodesLock: the goroutines of podReconciliation with wfNodesLock.    *)
(* A goroutine (gpc is its position) records its pod, takes wfNodesLock,   *)
(* assesses the pod and releases the lock when performAssessment returns,  *)
(* then applies the execution control, which takes the lock for its write. *)
(* woc.lock is the set of goroutines that hold wfNodesLock.                *)
(***************************************************************************)
\* a lock that lets every caller in
wfNodesLockFreeAlways(holders) == TRUE

\* wfNodesLock.Lock() returns: nobody holds the lock
wfNodesLockFree(holders) == holders = {}

\* the write of applyExecutionControl for the pod
applyExecutionControl(w, p) == AddCall(w, Call("applyExecutionControl", p, ""))

\* the goroutines inside performAssessment after Lock(), or inside the write of
\* applyExecutionControl
NodeWriters == {p \in DOMAIN gpc : gpc[p] \in {"assessing", "controlling"}}

InitNodesLock ==
    /\ \E ns \in [ReconNodeNames -> ReconNodes], observed \in SUBSET ReconNodeNames,
          ps \in [ReconNodeNames -> ReconPods] :
          /\ wf = [NewWorkflow EXCEPT !.phase = "Running", !.startedAt = 1, !.nodes = ns]
          /\ pods = [p \in observed |-> ps[p]]
    /\ now \in ReconTimes
    /\ held = {} /\ lockBusy = FALSE /\ last = NoLast
    /\ cfg = NewSpec(FALSE, FALSE, -1, FALSE, FALSE) /\ ops = 0 /\ srv = NewWorkflow
    /\ woc = [pc |-> "wait", remaining |-> {}, lock |-> {},
              ctx |-> newWorkflowOperationCtx(wf, pods, held, lockBusy, cfg, now, NoEnv)]
    /\ gpc = [p \in DOMAIN pods |-> "start"]
    /\ seenPods = {}

\* wfNodesLock.Lock() in performAssessment
LockForAssessment ==
    /\ \E p \in DOMAIN gpc :
          /\ gpc[p] = "recorded"
          /\ wfNodesLockFree(woc.lock)
          /\ woc' = [woc EXCEPT !.lock = @ \cup {p}]
          /\ gpc' = [gpc EXCEPT ![p] = "assessing"]
    /\ UNCHANGED <<wf, pods, now, held, lockBusy, last, cfg, ops, srv, seenPods>>

\* the rest of performAssessment, and the deferred wfNodesLock.Unlock()
AssessLocked ==
    /\ \E p \in DOMAIN gpc :
          /\ gpc[p] = "assessing"
          /\ woc' = [woc EXCEPT !.ctx = performAssessment(woc.ctx, p), !.lock = @ \ {p}]
          /\ gpc' = [gpc EXCEPT ![p] = "assessed"]
    /\ UNCHANGED <<wf, pods, now, held, lockBusy, last, cfg, ops, srv, seenPods>>

\* applyExecutionControl takes wfNodesLock
LockForControl ==
    /\ \E p \in DOMAIN gpc :
          /\ gpc[p] = "assessed"
          /\ wfNodesLockFree(woc.lock)
          /\ woc' = [woc EXCEPT !.lock = @ \cup {p}]
          /\ gpc' = [gpc EXCEPT ![p] = "controlling"]
    /\ UNCHANGED <<wf, pods, now, held, lockBusy, last, cfg, ops, srv, seenPods>>

\* applyExecutionControl writes, releases the lock and returns; wg.Done()
ControlDone ==
    /\ \E p \in DOMAIN gpc :
          /\ gpc[p] = "controlling"
          /\ woc' = [woc EXCEPT !.ctx = applyExecutionControl(woc.ctx, p), !.lock = @ \ {p}]
          /\ gpc' = [gpc EXCEPT ![p] = "done"]
    /\ UNCHANGED <<wf, pods, now, held, lockBusy, last, cfg, ops, srv, seenPods>>

NextNodesLock ==
    \/ RecordSeen \/ LockForAssessment \/ AssessLocked \/ LockForControl \/ ControlDone
    \/ WaitDone \/ CheckNode \/ ReconReturn

SpecNodesLock == InitNodesLock /\ [][NextNodesLock]_vars

\* C38: under every interleaving of the goroutines of podReconciliation at most one
\* of them is writing the node map, completedPods or the workflow status, the one
\* that writes is the only holder of wfNodesLock, and the loop over the nodes that
\* looks for deleted pods runs only when every goroutine has returned
C38_WritesUnderNodesLock ==
    /\ Cardinality(NodeWriters) <= 1
    /\ NodeWriters = woc.lock
    /\ woc.pc # "wait" => \A p \in DOMAIN gpc : gpc[p] = "done"

\* one goroutine is assessing its pod while the other one, its pod recorded, waits
\* for the lock
C38_Witness ==
    /\ gpc = (ChildName(Entry, 0) :> "assessing") @@ (ChildName(Entry, 1) :> "recorded")
    /\ woc.lock = {ChildName(Entry, 0)}
    /\ woc.pc = "wait"

(***************************************************************************)
(* SpecDaemon: the reconciliations of workflows with a daemoned entry      *)
(* template; the hydrator may fail while the workflow is persisted.        *)
(***************************************************************************)
\* plain, a daemon, a daemon with an exit handler
DaemonConfigs ==
    {NewSpec(FALSE, FALSE, -1, FALSE, FALSE), NewSpec(FALSE, FALSE, -1, FALSE, TRUE),
     NewSpec(FALSE, TRUE, -1, FALSE, TRUE)}

\* the hydrator may fail
DaemonFaults == {"none", "dehydrateFail"}

InitDaemon ==
    /\ wf = NewWorkflow
    /\ pods = <<>>
    /\ now = 1
    /\ held = {} /\ lockBusy = FALSE
    /\ last = NoLast
    /\ cfg \in DaemonConfigs
    /\ ops = 0
    /\ srv = NewWorkflow /\ woc = <<>> /\ gpc = <<>> /\ seenPods = {}

\* one reconciliation of a workflow that is not labelled completed
OperateDaemon ==
    /\ ops < MaxOps
    /\ ~wf.completed
    /\ \E fault \in DaemonFaults :
          LET operated(w) ==
                  /\ wf' = w.server
                  /\ pods' = w.pods
                  /\ held' = w.held
                  /\ last' = Summary(w, wf)
          IN operated(operate(newWorkflowOperationCtx(wf, pods, held, lockBusy, cfg, now,
                                                      [NoEnv EXCEPT !.fault = fault])))
    /\ ops' = ops + 1
    /\ UNCHANGED <<now, lockBusy, cfg, srv, woc, gpc, seenPods>>

NextDaemon == OperateDaemon \/ PodProgress \/ InformerSync \/ Tick

SpecDaemon == InitDaemon /\ [][NextDaemon]_vars

\* a node of the stored workflow is daemoned
StoredDaemonNodes == \E n \in DOMAIN wf.nodes : wf.nodes[n].daemoned

\* C40: a workflow whose phase is Succeeded, Failed or Error is marked completed
\* (finishedAt set, the completed label 'true') by the reconciliation that ends with
\* that phase, unless daemoned nodes delay it: once a reconciliation ends in such a
\* phase with no node daemoned, the workflow is completed
C40_TerminalCompleted ==
    (WfFulfilled(wf.phase) /\ ~StoredDaemonNodes) => (wf.completed /\ wf.finishedAt # 0)

\* a workflow in a terminal phase that is not marked completed is not marked completed
\* by any later step
C40_StaysUncompleted ==
    [][
        (WfFulfilled(wf.phase) /\ ~wf.completed) => ~wf'.completed
    ]_vars

====
